---- MODULE Spec2Model ----
(***************************************************************************)
(* Resilient dispatch and transfer scheduling of the web browser           *)
(* downloader: DownloadManager (task queue and concurrency gate),          *)
(* ErrorHandler (error classification and retry with backoff) and          *)
(* ProxyService (endpoint selection, circuit breaker, rate limiter).       *)
(*                                                                         *)
(* JavaScript runs one job at a time.  A handler runs without interruption *)
(* up to its first `await`; the continuation of an `await` on a promise    *)
(* that is already settled is a microtask, and every pending microtask     *)
(* runs before the next timer callback or I/O event.  Actions below are    *)
(* these uninterrupted pieces.                                             *)
(***************************************************************************)
EXTENDS Integers, Sequences, FiniteSets, TLC

(***************************************************************************)
(* Bounds of the model.                                                    *)
(***************************************************************************)
MaxTasks == 4
MaxManualRetries == 1
MaxCalls == 2
MaxProxyCalls == 2
MaxTime == 7
SmallRateLimit == 1
MaxLastUsed == 2
MaxAnalyses == 2
MaxMixedTasks == 3
MaxRetained == 2
MaxTracked == 2
MaxLoaded == 3
MaxTotal == 2
MaxObservers == 3
MaxEmitted == 3

(***************************************************************************)
(* Program constants.                                                      *)
(***************************************************************************)
RetryAttempts == 3
MaxRetries == 3
RetryDelay == 1000
DefaultMaxConcurrentDownloads == 3

Tasks == 1..MaxTasks

\* values the tests assign to maxConcurrentDownloads, and the constructor's
ConcurrencyLimits == {2, DefaultMaxConcurrentDownloads}

VARIABLES
    \* ---- DownloadManager ----
    isInitialized,          \* this.isInitialized
    maxConcurrentDownloads, \* this.maxConcurrentDownloads
    downloads,              \* this.downloads: id -> task record
    activeDownloads,        \* this.activeDownloads
    downloadQueue,          \* this.downloadQueue: sequence of task ids
    run,                    \* per task: position of its executeDownload invocation
    dmRetryAttempts,        \* this.errorHandler.retryAttempts, key download-<id>
    dmOnline,               \* this.errorHandler.isOnline
    completionNotified,     \* per task: calls of notifyCompletion
    errorNotified,          \* per task: calls of notifyError
    manualRetries,          \* the ids retryDownload has been called with so far
    submitCall,             \* per task: the downloadMediaFile/downloadPDFFile call
                            \* that created it: none, awaiting or returned
    \* ---- ErrorHandler on its own ----
    isOnline,               \* this.isOnline
    retryAttempts,          \* this.retryAttempts: operation id -> count (0: no entry)
    calls,                  \* the handleNetworkError calls made so far
    \* ---- ProxyService ----
    pxInitialized,          \* this.isInitialized
    pxOnline,               \* this.errorHandler.isOnline
    proxyServices,          \* names of this.proxyServices, in the constructor's order
    failureCount,           \* this.failureCount: name -> count (0: no entry)
    circuitBreaker,         \* this.circuitBreaker: name -> openedAt (NoBreaker: no entry)
    requestCount,           \* service.requestCount
    lastUsed,               \* service.lastUsed
    now,                    \* Date.now(), in minutes since initialize set the timers
    proxyCalls,             \* the proxyGet calls made so far
    healthCheck,            \* index of the service performHealthCheck probes (0: idle)
    \* ---- history of the ProxyService ----
    consecutiveFailures,    \* recordFailure calls since the last recordSuccess
    thirdFailureAt,         \* time of the third recordFailure in a row
    successes,              \* recordSuccess calls
    failedAttempts,         \* proxyGet iterations begun since the last recordSuccess
                            \* that have failed
    openedAt,               \* time recordFailure last opened the circuit
    attemptsInWindow,       \* requests dispatched since the last resetRateLimits
    selected,               \* the answer of the last selectBestProxy() called
                            \* directly, and the state it was called in
    analyzed,               \* the errors given to analyzeError() directly, with
                            \* the answers, in the order of the calls
    retention,              \* the tasks cleanupCompletedDownloads() found and
                            \* the tasks it left
    tracked,                \* the (loaded, total) pairs given to progressTracker
                            \* and the progress values it stored and pushed
    observers               \* progressCallbacks, the updates emitted and the
                            \* updates each observer was called with

dmVars == << isInitialized, maxConcurrentDownloads, downloads, activeDownloads,
             downloadQueue, run, dmRetryAttempts, dmOnline,
             completionNotified, errorNotified, manualRetries, submitCall >>

ehVars == << isOnline, retryAttempts, calls >>

pxVars == << pxInitialized, pxOnline, proxyServices, failureCount, circuitBreaker,
             requestCount, lastUsed, now, proxyCalls, healthCheck,
             consecutiveFailures, thirdFailureAt, successes, failedAttempts,
             openedAt, attemptsInWindow >>

\* results of the calls of the functions that are examined on their own
fnVars == << selected, analyzed, retention, tracked, observers >>

vars == << dmVars, ehVars, pxVars, fnVars >>

(***************************************************************************)
(* Errors.  An error is its constructor name, its message and the          *)
(* substrings analyzeError looks for that the message contains.            *)
(***************************************************************************)
Err(name, msg, has) == [name |-> name, msg |-> msg, has |-> has]

Ok == Err("ok", "", {})
NoResult == Err("none", "", {})

DownloadPreparation == Err("Error", "Download preparation", {})
OfflineError == Err("Error", "offline", {})
FetchTypeError == Err("TypeError", "Failed to fetch", {"fetch"})
TimeoutError == Err("Error", "Request timeout", {"timeout"})
NotFoundError == Err("Error", "HTTP 404", {"404"})
NetworkRequestFailed == Err("Error", "Network request failed", {})
TextProcessingError == Err("Error", "text processing failed", {})

IsError(r) == r.name \notin {"ok", "none"}

\* ErrorHandler.analyzeError
AnalyzeError(error) ==
    IF error.name = "TypeError" /\ "fetch" \in error.has
      THEN [type |-> "network", isRetryable |-> TRUE, severity |-> "high"]
    ELSE IF "timeout" \in error.has
      THEN [type |-> "timeout", isRetryable |-> TRUE, severity |-> "medium"]
    ELSE IF "CORS" \in error.has
      THEN [type |-> "cors", isRetryable |-> FALSE, severity |-> "high"]
    ELSE IF "SSL" \in error.has \/ "certificate" \in error.has
      THEN [type |-> "ssl", isRetryable |-> FALSE, severity |-> "high"]
    ELSE IF "404" \in error.has
      THEN [type |-> "notfound", isRetryable |-> FALSE, severity |-> "low"]
    ELSE IF "403" \in error.has \/ "401" \in error.has
      THEN [type |-> "auth", isRetryable |-> FALSE, severity |-> "medium"]
    ELSE IF "500" \in error.has \/ "502" \in error.has \/ "503" \in error.has
      THEN [type |-> "server", isRetryable |-> TRUE, severity |-> "high"]
    ELSE [type |-> "unknown", isRetryable |-> FALSE, severity |-> "medium"]

\* ErrorHandler.canRetry; attempts is retryAttempts.get(operation) || 0
CanRetry(attempts, errorInfo) ==
    IF ~errorInfo.isRetryable THEN FALSE ELSE attempts < MaxRetries

\* ErrorHandler.generateUserFriendlyMessage: one message per error type
GenerateUserFriendlyMessage(errorInfo) ==
    Err("Error", errorInfo.type, {})

Pow2(n) == IF n = 0 THEN 1 ELSE IF n = 1 THEN 2 ELSE IF n = 2 THEN 4 ELSE 8

\* ErrorHandler.retryOperation up to `await this.wait(delay)`
RetryOperationEntry(attempts) ==
    [attempts |-> attempts + 1, delay |-> RetryDelay * Pow2(attempts)]

\* handleNetworkError that does not look at isOnline
HandleNetworkErrorAnyNetwork(error, attempts, online) ==
    LET errorInfo == AnalyzeError(error) IN
    IF CanRetry(attempts, errorInfo)
      THEN [pc |-> "backoff", res |-> NoResult,
            attempts |-> RetryOperationEntry(attempts).attempts]
    ELSE [pc |-> "micro", res |-> GenerateUserFriendlyMessage(errorInfo),
          attempts |-> attempts]

\* ErrorHandler.handleNetworkError up to its first suspension: the promise
\* is rejected at once, or retryOperation starts its backoff wait.
HandleNetworkError(error, attempts, online) ==
    LET errorInfo == AnalyzeError(error) IN
    IF ~online
      THEN [pc |-> "micro", res |-> OfflineError, attempts |-> attempts]
    ELSE IF CanRetry(attempts, errorInfo)
      THEN [pc |-> "backoff", res |-> NoResult,
            attempts |-> RetryOperationEntry(attempts).attempts]
    ELSE [pc |-> "micro", res |-> GenerateUserFriendlyMessage(errorInfo),
          attempts |-> attempts]

\* retryOperation retrying whatever the kind of the failure
RetryOperationReturnAnyKind(answer, attempts) ==
    IF ~IsError(answer)
      THEN [pc |-> "micro", res |-> answer, attempts |-> 0]
    ELSE IF attempts < MaxRetries
      THEN [pc |-> "backoff", res |-> NoResult,
            attempts |-> RetryOperationEntry(attempts).attempts]
    ELSE [pc |-> "micro", res |-> answer, attempts |-> attempts]

\* ErrorHandler.retryOperation after `await retryFunction()`: the work unit
\* returned answer; attempts is the operation's counter at that moment.
RetryOperationReturn(answer, attempts) ==
    IF ~IsError(answer)
      THEN [pc |-> "micro", res |-> answer, attempts |-> 0]
    ELSE IF CanRetry(attempts, AnalyzeError(answer))
      THEN [pc |-> "backoff", res |-> NoResult,
            attempts |-> RetryOperationEntry(attempts).attempts]
    ELSE [pc |-> "micro", res |-> answer, attempts |-> attempts]

(***************************************************************************)
(* DownloadManager.  The operations are written as functions of a record   *)
(* S of the manager's fields, so that a handler that calls another one     *)
(* (the finally block calls processQueue, which calls executeDownload) is  *)
(* one step.                                                               *)
(***************************************************************************)
DMState ==
    [downloads |-> downloads, activeDownloads |-> activeDownloads,
     downloadQueue |-> downloadQueue, run |-> run,
     dmRetryAttempts |-> dmRetryAttempts,
     completionNotified |-> completionNotified,
     errorNotified |-> errorNotified]

SetDMState(S) ==
    /\ downloads' = S.downloads
    /\ activeDownloads' = S.activeDownloads
    /\ downloadQueue' = S.downloadQueue
    /\ run' = S.run
    /\ dmRetryAttempts' = S.dmRetryAttempts
    /\ completionNotified' = S.completionNotified
    /\ errorNotified' = S.errorNotified

\* invocations: the executeDownload invocations of the task that have not
\* reached their finally block
Idle == [pc |-> "none", res |-> NoResult, calls |-> 0, invocations |-> 0]

\* DownloadManager.updateDownloadStatus
UpdateDownloadStatus(S, id, status, error) ==
    IF id \in DOMAIN S.downloads
      THEN [S EXCEPT !.downloads[id].status = status,
                     !.downloads[id].error = IF IsError(error) THEN error ELSE @]
      ELSE S

\* What the transport answers to the successive transfers of one task: two
\* connection failures, then the file.
TransferPlan == << FetchTypeError, FetchTypeError, Ok >>

\* The k-th transfer of a task gets the k-th answer of the plan, the last
\* answer repeating.
TransferAnswer(k) ==
    IF k <= Len(TransferPlan) THEN TransferPlan[k] ELSE TransferPlan[Len(TransferPlan)]

\* DownloadManager.executeTextDownload: no suspension inside, it runs to
\* its end when called.  textOk: no step of the conversion and save throws.
ExecuteTextDownload(S, id, textOk) ==
    LET S1 == UpdateDownloadStatus(S, id, "processing", NoResult) IN
    IF textOk
      THEN [st |-> [S1 EXCEPT !.downloads[id].progress = 100], res |-> Ok]
      ELSE [st |-> S1, res |-> TextProcessingError]

\* DownloadManager.executeFileDownload up to its first suspension
ExecuteFileDownload(S, id) ==
    LET h == HandleNetworkError(DownloadPreparation, S.dmRetryAttempts[id], dmOnline) IN
    [S EXCEPT !.dmRetryAttempts[id] = h.attempts,
              !.run[id] = [pc |-> h.pc, res |-> h.res, calls |-> 0,
                           invocations |-> S.run[id].invocations]]

\* DownloadManager.executeDownload up to `await`
ExecuteDownload(S, id, textOk) ==
    LET S1 == [S EXCEPT !.activeDownloads = @ + 1,
                        !.run[id].invocations = @ + 1]
        S2 == UpdateDownloadStatus(S1, id, "downloading", NoResult)
    IN  IF S2.downloads[id].type \in {"media", "pdf"}
          THEN ExecuteFileDownload(S2, id)
          ELSE LET t == ExecuteTextDownload(S2, id, textOk) IN
               [t.st EXCEPT !.run[id] = [pc |-> "micro", res |-> t.res, calls |-> 0,
                                         invocations |-> t.st.run[id].invocations]]

\* processQueue taking the task that was queued last
ProcessQueueLast(S, textOk) ==
    IF Len(S.downloadQueue) > 0 /\ S.activeDownloads < maxConcurrentDownloads
      THEN ExecuteDownload([S EXCEPT !.downloadQueue =
                                SubSeq(@, 1, Len(@) - 1)],
                           S.downloadQueue[Len(S.downloadQueue)], textOk)
      ELSE S

\* processQueue starting the head of the queue and leaving it in the queue
ProcessQueueKeepsHead(S, textOk) ==
    IF Len(S.downloadQueue) > 0 /\ S.activeDownloads < maxConcurrentDownloads
      THEN ExecuteDownload(S, Head(S.downloadQueue), textOk)
      ELSE S

\* DownloadManager.processQueue
ProcessQueue(S, textOk) ==
    IF Len(S.downloadQueue) > 0 /\ S.activeDownloads < maxConcurrentDownloads
      THEN ExecuteDownload([S EXCEPT !.downloadQueue = Tail(@)],
                           Head(S.downloadQueue), textOk)
      ELSE S

\* queueDownload admitting a task while the gate is already full
QueueDownloadOffByOne(S, id, textOk) ==
    IF S.activeDownloads <= maxConcurrentDownloads
      THEN ExecuteDownload(S, id, textOk)
      ELSE UpdateDownloadStatus([S EXCEPT !.downloadQueue = Append(@, id)],
                                id, "queued", NoResult)

\* DownloadManager.queueDownload
QueueDownload(S, id, textOk) ==
    IF S.activeDownloads < maxConcurrentDownloads
      THEN ExecuteDownload(S, id, textOk)
      ELSE UpdateDownloadStatus([S EXCEPT !.downloadQueue = Append(@, id)],
                                id, "queued", NoResult)

\* the finally block of executeDownload
Finally(S, textOk) ==
    ProcessQueue([S EXCEPT !.activeDownloads = @ - 1], textOk)

\* executeDownload allowing one retry more than retryAttempts
ExecuteDownloadSettleOneMore(S, id, res, textOk) ==
    LET S0 == [S EXCEPT !.run[id] =
                   [Idle EXCEPT !.invocations = S.run[id].invocations - 1]] IN
    IF ~IsError(res)
      THEN Finally([UpdateDownloadStatus(S0, id, "completed", NoResult)
                       EXCEPT !.completionNotified[id] = @ + 1], textOk)
    ELSE IF S0.downloads[id].retryCount <= RetryAttempts
      THEN Finally(UpdateDownloadStatus(
                       [S0 EXCEPT !.downloads[id].retryCount = @ + 1,
                                  !.run[id].pc = "timer"],
                       id, "retrying", NoResult), textOk)
    ELSE Finally([UpdateDownloadStatus(S0, id, "failed", res)
                     EXCEPT !.errorNotified[id] = @ + 1], textOk)

\* executeDownload after `await`: the transfer returned res
ExecuteDownloadSettle(S, id, res, textOk) ==
    LET S0 == [S EXCEPT !.run[id] =
                   [Idle EXCEPT !.invocations = S.run[id].invocations - 1]] IN
    IF ~IsError(res)
      THEN Finally([UpdateDownloadStatus(S0, id, "completed", NoResult)
                       EXCEPT !.completionNotified[id] = @ + 1], textOk)
    ELSE IF S0.downloads[id].retryCount < RetryAttempts
      THEN Finally(UpdateDownloadStatus(
                       [S0 EXCEPT !.downloads[id].retryCount = @ + 1,
                                  !.run[id].pc = "timer"],
                       id, "retrying", NoResult), textOk)
    ELSE Finally([UpdateDownloadStatus(S0, id, "failed", res)
                     EXCEPT !.errorNotified[id] = @ + 1], textOk)

\* the n-th submission asks for target n under destination name n
SubmittedUrl(n) == n
SubmittedFilename(n) == n

NewTask(id, type) ==
    [id |-> id, type |-> type, url |-> SubmittedUrl(id),
     filename |-> SubmittedFilename(id), status |-> "pending", progress |-> 0, retryCount |-> 0,
     error |-> NoResult]

NextId == Cardinality(DOMAIN downloads) + 1

\* DownloadManager.getDownloadProgress: the fields of the answer that the
\* task record of this model has (the times are not modelled)
GetDownloadProgress(S, downloadId) ==
    IF downloadId \notin DOMAIN S.downloads
      THEN NoResult
      ELSE LET download == S.downloads[downloadId] IN
           [id |-> download.id, type |-> download.type,
            filename |-> download.filename, status |-> download.status,
            progress |-> download.progress, retryCount |-> download.retryCount,
            error |-> download.error]

\* no continuation of an already settled promise is pending
NoMicrotaskPending == \A t \in Tasks : run[t].pc # "micro"

----------------------------------------------------------------------------
(***************************************************************************)
(* ProxyService.  Time is counted in minutes.  The operations are written  *)
(* as functions of a record P of the service's maps and per-service        *)
(* fields, so that proxyGet's loop body (selectBestProxy, then the start   *)
(* of makeProxyRequest) is one step.                                       *)
(***************************************************************************)
FailureThreshold == 3
Cooldown == 5
HealthCheckPeriod == 5

\* the services of the constructor, in its order
ServiceOrder == << "AllOrigins", "CORS.SH", "CORSProxy.io" >>
ServiceNames == { ServiceOrder[i] : i \in 1..Len(ServiceOrder) }
IndexOf(e) == CHOOSE i \in 1..Len(ServiceOrder) : ServiceOrder[i] = e

\* service.rateLimit, scaled down
RateLimit(e) == SmallRateLimit

NoBreaker == -1
NoService == "null"

NetworkRequestPreparation == Err("Error", "Network request preparation", {})
NotInitializedError == Err("Error", "proxy service not initialized", {})
HttpsRequiredError == Err("Error", "target must use HTTPS", {})
NoProxyAvailable == Err("Error", "no proxy service available", {})
AllProxiesFailed(lastError) == Err("Error", "all proxy services failed", lastError.has)

PSState ==
    [failureCount |-> failureCount, circuitBreaker |-> circuitBreaker,
     requestCount |-> requestCount, lastUsed |-> lastUsed,
     consecutiveFailures |-> consecutiveFailures,
     thirdFailureAt |-> thirdFailureAt, successes |-> successes,
     failedAttempts |-> failedAttempts,
     openedAt |-> openedAt, attemptsInWindow |-> attemptsInWindow]

SetPSState(P) ==
    /\ failureCount' = P.failureCount
    /\ circuitBreaker' = P.circuitBreaker
    /\ requestCount' = P.requestCount
    /\ lastUsed' = P.lastUsed
    /\ consecutiveFailures' = P.consecutiveFailures
    /\ thirdFailureAt' = P.thirdFailureAt
    /\ successes' = P.successes
    /\ failedAttempts' = P.failedAttempts
    /\ openedAt' = P.openedAt
    /\ attemptsInWindow' = P.attemptsInWindow

\* recordFailure opening the circuit only after twice the threshold
RecordFailureLate(P, e) ==
    LET failures == P.failureCount[e]
        P1 == [P EXCEPT !.failureCount[e] = failures + 1,
                        !.consecutiveFailures[e] = @ + 1,
                        !.thirdFailureAt[e] =
                            IF P.consecutiveFailures[e] + 1 = FailureThreshold
                              THEN now ELSE @]
    IN  IF failures >= 2 * FailureThreshold
          THEN [P1 EXCEPT !.circuitBreaker[e] = now, !.openedAt[e] = now]
          ELSE P1

\* ProxyService.recordFailure
RecordFailure(P, e) ==
    LET failures == P.failureCount[e]
        P1 == [P EXCEPT !.failureCount[e] = failures + 1,
                        !.consecutiveFailures[e] = @ + 1,
                        !.thirdFailureAt[e] =
                            IF P.consecutiveFailures[e] + 1 = FailureThreshold
                              THEN now ELSE @]
    IN  IF failures >= FailureThreshold
          THEN [P1 EXCEPT !.circuitBreaker[e] = now, !.openedAt[e] = now]
          ELSE P1

\* recordSuccess that leaves the failure count as it is
RecordSuccessKeepsCount(P, e) ==
    [P EXCEPT !.circuitBreaker[e] = NoBreaker,
              !.consecutiveFailures[e] = 0,
              !.thirdFailureAt[e] = NoBreaker,
              !.successes[e] = @ + 1,
              !.failedAttempts[e] = 0,
              !.openedAt[e] = NoBreaker]

\* ProxyService.recordSuccess
RecordSuccess(P, e) ==
    [P EXCEPT !.failureCount[e] = 0,
              !.circuitBreaker[e] = NoBreaker,
              !.consecutiveFailures[e] = 0,
              !.thirdFailureAt[e] = NoBreaker,
              !.successes[e] = @ + 1,
              !.failedAttempts[e] = 0,
              !.openedAt[e] = NoBreaker]

\* performHealthCheck that counts nothing for a probe that fails
ProbeResultSuccessOnly(P, service, isHealthy) ==
    IF isHealthy THEN RecordSuccess(P, service) ELSE P

\* performHealthCheck: what it does with the answer of one probe
ProbeResult(P, service, isHealthy) ==
    IF isHealthy THEN RecordSuccess(P, service) ELSE RecordFailure(P, service)

\* the breaker of e is set and its timeout has passed
BreakerExpired(P, e) ==
    P.circuitBreaker[e] # NoBreaker /\ now - P.circuitBreaker[e] > Cooldown

\* ProxyService.isServiceAvailable: its answer ...
IsServiceAvailable(P, e) ==
    P.circuitBreaker[e] = NoBreaker \/ BreakerExpired(P, e)

\* isServiceAvailable that also forgets the failures when the timeout has passed
AfterAvailabilityChecksForgets(P) ==
    [P EXCEPT !.circuitBreaker =
        [e \in ServiceNames |->
            IF e \in proxyServices /\ BreakerExpired(P, e) THEN NoBreaker ELSE @[e]],
              !.failureCount =
        [e \in ServiceNames |->
            IF e \in proxyServices /\ BreakerExpired(P, e) THEN 0 ELSE @[e]]]

\* ... and its effect, for every service selectBestProxy's filter asks about
AfterAvailabilityChecks(P) ==
    [P EXCEPT !.circuitBreaker =
        [e \in ServiceNames |->
            IF e \in proxyServices /\ BreakerExpired(P, e) THEN NoBreaker ELSE @[e]]]

\* ProxyService.resetRateLimits
ResetRateLimits(P) ==
    [P EXCEPT !.requestCount = [e \in ServiceNames |->
                                   IF e \in proxyServices THEN 0 ELSE @[e]],
              !.attemptsInWindow = [e \in ServiceNames |-> 0]]

\* ProxyService.checkRateLimit
CheckRateLimit(P, e) == P.requestCount[e] < RateLimit(e)

\* the filter of selectBestProxy
AvailableServices(P) ==
    { e \in proxyServices : IsServiceAvailable(P, e) /\ CheckRateLimit(P, e) }

\* selectBestProxy preferring the service used last
SelectMostRecentlyUsed(P) ==
    LET available == AvailableServices(P) IN
    IF available = {} THEN NoService
    ELSE CHOOSE best \in available :
           \A current \in available :
              \/ P.lastUsed[best] > P.lastUsed[current]
              \/ /\ P.lastUsed[best] = P.lastUsed[current]
                 /\ IndexOf(best) <= IndexOf(current)

\* ProxyService.selectBestProxy: reduce keeps the first of the services
\* with the least lastUsed
SelectBestProxy(P) ==
    LET available == AvailableServices(P) IN
    IF available = {} THEN NoService
    ELSE CHOOSE best \in available :
           \A current \in available :
              \/ P.lastUsed[best] < P.lastUsed[current]
              \/ /\ P.lastUsed[best] = P.lastUsed[current]
                 /\ IndexOf(best) <= IndexOf(current)

\* SecurityManager.validateHTTPS on a URL of the given scheme
ValidateHTTPS(scheme) == scheme = "https"

\* url.replace(/^http:/, 'https:')
UpgradeToHTTPS(scheme) == IF scheme = "http" THEN "https" ELSE scheme

\* the loop of proxyGet going round once more than there are services
ProxyGetLoopOneMore(P, call) ==
    IF call.attempts <= call.maxAttempts
      THEN LET service == SelectBestProxy(P)
               P1 == AfterAvailabilityChecks(P)
           IN  IF service = NoService
                 THEN [st |-> P1,
                       call |-> [call EXCEPT !.pc = "done", !.res = NoProxyAvailable,
                                             !.service = NoService]]
                 ELSE [st |-> [P1 EXCEPT !.attemptsInWindow[service] = @ + 1],
                       call |-> [call EXCEPT !.pc = "request", !.service = service,
                                             !.epoch = P.successes[service]]]
      ELSE [st |-> P,
            call |-> [call EXCEPT !.pc = "done", !.service = NoService,
                                  !.res = AllProxiesFailed(call.lastError)]]

\* the while loop of proxyGet from its test to the next suspension:
\* selectBestProxy, then makeProxyRequest up to its await
ProxyGetLoop(P, call) ==
    IF call.attempts < call.maxAttempts
      THEN LET service == SelectBestProxy(P)
               P1 == AfterAvailabilityChecks(P)
           IN  IF service = NoService
                 THEN [st |-> P1,
                       call |-> [call EXCEPT !.pc = "done", !.res = NoProxyAvailable,
                                             !.service = NoService]]
                 ELSE [st |-> [P1 EXCEPT !.attemptsInWindow[service] = @ + 1],
                       call |-> [call EXCEPT !.pc = "request", !.service = service,
                                             !.epoch = P.successes[service]]]
      ELSE [st |-> P,
            call |-> [call EXCEPT !.pc = "done", !.service = NoService,
                                  !.res = AllProxiesFailed(call.lastError)]]

\* new ProxyService(securityManager)
PSConstructed ==
    /\ pxInitialized = FALSE
    /\ proxyServices = ServiceNames
    /\ failureCount = [e \in ServiceNames |-> 0]
    /\ circuitBreaker = [e \in ServiceNames |-> NoBreaker]
    /\ requestCount = [e \in ServiceNames |-> 0]
    /\ lastUsed = [e \in ServiceNames |-> 0]
    /\ now = 0
    /\ proxyCalls = << >>
    /\ healthCheck = 0
    /\ consecutiveFailures = [e \in ServiceNames |-> 0]
    /\ thirdFailureAt = [e \in ServiceNames |-> NoBreaker]
    /\ successes = [e \in ServiceNames |-> 0]
    /\ failedAttempts = [e \in ServiceNames |-> 0]
    /\ openedAt = [e \in ServiceNames |-> NoBreaker]
    /\ attemptsInWindow = [e \in ServiceNames |-> 0]


----------------------------------------------------------------------------
(***************************************************************************)
(* Inputs of the ErrorHandler: operation ids, the errors handed to         *)
(* handleNetworkError and the answers of the work unit to its successive   *)
(* invocations (the last answer repeats).                                  *)
(***************************************************************************)
Operations == {"op1", "op2"}
InitialErrors == {TimeoutError, NetworkRequestFailed, DownloadPreparation}
WorkPlans ==
    { << Ok >>,
      << TimeoutError, Ok >>,
      << NetworkRequestFailed, NetworkRequestFailed, Ok >>,
      << TimeoutError, TimeoutError, Ok >>,
      << TimeoutError >>,
      << NotFoundError >>,
      << TimeoutError, NotFoundError >> }

PlanAnswer(plan, k) == IF k <= Len(plan) THEN plan[k] ELSE plan[Len(plan)]

\* new DownloadManager(...)
DMConstructed ==
    /\ isInitialized = FALSE
    /\ downloads = << >>
    /\ activeDownloads = 0
    /\ downloadQueue = << >>
    /\ run = [t \in Tasks |-> Idle]
    /\ dmRetryAttempts = [t \in Tasks |-> 0]
    /\ completionNotified = [t \in Tasks |-> 0]
    /\ errorNotified = [t \in Tasks |-> 0]
    /\ manualRetries = << >>
    /\ submitCall = [t \in Tasks |-> "none"]

\* new ErrorHandler()
EHConstructed ==
    /\ retryAttempts = [op \in Operations |-> 0]
    /\ calls = << >>

\* no function has been called on its own yet
NoCall == [called |-> FALSE]

\* new DownloadManager: no observer is registered
NoObservers ==
    [progressCallbacks |-> << >>, emitted |-> << >>,
     delivered |-> << >>, registeredAt |-> << >>]

FnIdle ==
    /\ selected = NoCall
    /\ analyzed = << >>
    /\ retention = NoCall
    /\ tracked = << >>
    /\ observers = NoObservers

InitDM ==
    /\ DMConstructed
    /\ FnIdle
    /\ maxConcurrentDownloads \in ConcurrencyLimits
    /\ dmOnline \in BOOLEAN
    /\ EHConstructed
    /\ isOnline = TRUE
    /\ PSConstructed
    /\ pxOnline = TRUE

\* DownloadManager.initialize
Initialize ==
    /\ ~isInitialized
    /\ isInitialized' = TRUE
    /\ UNCHANGED << ehVars, pxVars, fnVars >>
    /\ UNCHANGED << maxConcurrentDownloads, downloads, activeDownloads,
                    downloadQueue, run, dmRetryAttempts, dmOnline,
                    completionNotified, errorNotified, manualRetries,
                    submitCall >>

SubmitFile(type) ==
    /\ isInitialized
    /\ NextId \in Tasks
    /\ \E textOk \in BOOLEAN :
         SetDMState(QueueDownload(
             [DMState EXCEPT !.downloads = @ @@ (NextId :> NewTask(NextId, type))],
             NextId, textOk))
    \* `await this.queueDownload(downloadTask)`: queueDownload has returned
    \* if it queued the task, and awaits executeDownload if it started it
    /\ submitCall' = [submitCall EXCEPT ![NextId] =
                         IF activeDownloads < maxConcurrentDownloads
                           THEN "awaiting" ELSE "returned"]
    /\ UNCHANGED << isInitialized, maxConcurrentDownloads, dmOnline,
                    manualRetries, ehVars, pxVars, fnVars >>

\* DownloadManager.downloadMediaFile
DownloadMediaFile == SubmitFile("media")

\* DownloadManager.downloadPDFFile
DownloadPDFFile == SubmitFile("pdf")

\* DownloadManager.downloadTextContent
DownloadTextContent ==
    /\ isInitialized
    /\ NextId \in Tasks
    /\ \E textOk \in BOOLEAN :
         LET S0 == [DMState EXCEPT !.downloads = @ @@ (NextId :> NewTask(NextId, "text"))]
             t == ExecuteTextDownload(S0, NextId, textOk)
         IN  SetDMState(IF IsError(t.res)
                          THEN UpdateDownloadStatus(t.st, NextId, "failed", t.res)
                          ELSE t.st)
    /\ submitCall' = [submitCall EXCEPT ![NextId] = "returned"]
    /\ UNCHANGED << isInitialized, maxConcurrentDownloads, dmOnline,
                    manualRetries, ehVars, pxVars, fnVars >>

\* The in-flight attempt of task id advances: the continuation of
\* executeDownload runs (pc micro), or, inside ErrorHandler.retryOperation,
\* the backoff wait ends and the transfer is started (pc backoff), or the
\* transfer returns (pc transfer).
ExecuteDownloadResume(id) ==
    /\ id \in DOMAIN downloads
    /\ run[id].pc \in {"micro", "backoff", "transfer"}
    /\ \E textOk \in BOOLEAN :
        LET S == DMState
            answer == TransferAnswer(run[id].calls)
        IN  SetDMState(
              CASE run[id].pc = "micro" ->
                     ExecuteDownloadSettle(S, id, run[id].res, textOk)
                [] run[id].pc = "backoff" ->
                     [S EXCEPT !.run[id].pc = "transfer", !.run[id].calls = @ + 1]
                [] run[id].pc = "transfer" ->
                     LET h == RetryOperationReturn(answer, S.dmRetryAttempts[id]) IN
                     [S EXCEPT !.dmRetryAttempts[id] = h.attempts,
                               !.run[id].pc = h.pc, !.run[id].res = h.res])
    \* executeDownload returns: the queueDownload that awaited it, and the
    \* submit call that awaited queueDownload, return
    /\ submitCall' = IF run[id].pc = "micro" /\ submitCall[id] = "awaiting"
                       THEN [submitCall EXCEPT ![id] = "returned"]
                       ELSE submitCall
    /\ UNCHANGED << isInitialized, maxConcurrentDownloads, dmOnline,
                    manualRetries, ehVars, pxVars, fnVars >>

\* the setTimeout callback of executeDownload's retry logic
RetryTimerFires(id) ==
    /\ id \in DOMAIN downloads
    /\ run[id].pc = "timer"
    /\ NoMicrotaskPending
    /\ \E textOk \in BOOLEAN : SetDMState(ExecuteDownload(DMState, id, textOk))
    /\ UNCHANGED << isInitialized, maxConcurrentDownloads, dmOnline,
                    manualRetries, submitCall, ehVars, pxVars, fnVars >>

\* cancelDownload that leaves the task in the queue
CancelDownloadKeepsQueue(id) ==
    /\ id \in DOMAIN downloads
    /\ downloads[id].status \in {"downloading", "queued"}
    /\ SetDMState(UpdateDownloadStatus(DMState, id, "cancelled", NoResult))
    /\ UNCHANGED << isInitialized, maxConcurrentDownloads, dmOnline,
                    manualRetries, submitCall, ehVars, pxVars, fnVars >>

\* DownloadManager.cancelDownload
CancelDownload(id) ==
    /\ id \in DOMAIN downloads
    /\ downloads[id].status \in {"downloading", "queued"}
    /\ LET S1 == UpdateDownloadStatus(DMState, id, "cancelled", NoResult) IN
       SetDMState([S1 EXCEPT !.downloadQueue =
                      SelectSeq(@, LAMBDA x : x # id)])
    /\ UNCHANGED << isInitialized, maxConcurrentDownloads, dmOnline,
                    manualRetries, submitCall, ehVars, pxVars, fnVars >>

\* retryDownload resubmitting a task whatever its status
RetryDownloadAnyStatus(id) ==
    /\ Len(manualRetries) < MaxManualRetries
    /\ manualRetries' = Append(manualRetries, id)
    /\ \E textOk \in BOOLEAN :
         IF id \in DOMAIN downloads
           THEN SetDMState(QueueDownload(
                    [DMState EXCEPT !.downloads[id].retryCount = 0,
                                    !.downloads[id].status = "pending",
                                    !.downloads[id].progress = 0,
                                    !.downloads[id].error = NoResult],
                    id, textOk))
           ELSE SetDMState(DMState)
    /\ UNCHANGED << isInitialized, maxConcurrentDownloads, dmOnline, submitCall,
                    ehVars, pxVars, fnVars >>

\* DownloadManager.retryDownload
RetryDownload(id) ==
    /\ Len(manualRetries) < MaxManualRetries
    /\ manualRetries' = Append(manualRetries, id)
    /\ \E textOk \in BOOLEAN :
         IF id \in DOMAIN downloads /\ downloads[id].status = "failed"
           THEN SetDMState(QueueDownload(
                    [DMState EXCEPT !.downloads[id].retryCount = 0,
                                    !.downloads[id].status = "pending",
                                    !.downloads[id].progress = 0,
                                    !.downloads[id].error = NoResult],
                    id, textOk))
           ELSE SetDMState(DMState)
    /\ UNCHANGED << isInitialized, maxConcurrentDownloads, dmOnline, submitCall,
                    ehVars, pxVars, fnVars >>

NextDM ==
    \/ Initialize
    \/ DownloadMediaFile
    \/ DownloadPDFFile
    \/ \E id \in Tasks : ExecuteDownloadResume(id)
    \/ \E id \in Tasks : RetryTimerFires(id)
    \/ \E id \in Tasks : CancelDownload(id)
    \/ \E id \in Tasks : RetryDownload(id)

SpecDM == InitDM /\ [][NextDM]_vars

----------------------------------------------------------------------------
(***************************************************************************)
(* The DownloadManager with cleanupDownloads, which the beforeunload       *)
(* listener and destroy call, and which a caller may call between any two  *)
(* handlers: up to MaxMixedTasks file tasks.                               *)
(***************************************************************************)
SubmitText == NextId <= MaxMixedTasks /\ DownloadTextContent

SubmitMedia == NextId <= MaxMixedTasks /\ DownloadMediaFile

\* DownloadManager.cleanupDownloads
CleanupDownloads ==
    /\ SetDMState([DMState EXCEPT
           !.downloads = [id \in DOMAIN downloads |->
                             IF downloads[id].status \in {"downloading", "queued"}
                               THEN [downloads[id] EXCEPT !.status = "cancelled"]
                               ELSE downloads[id]],
           !.downloadQueue = << >>,
           !.activeDownloads = 0])
    /\ UNCHANGED << isInitialized, maxConcurrentDownloads, dmOnline,
                    manualRetries, submitCall, ehVars, pxVars, fnVars >>

NextCleanup ==
    \/ Initialize
    \/ SubmitMedia
    \/ \E id \in Tasks : ExecuteDownloadResume(id)
    \/ \E id \in Tasks : RetryTimerFires(id)
    \/ CleanupDownloads

SpecCleanup == InitDM /\ [][NextCleanup]_vars

----------------------------------------------------------------------------
(***************************************************************************)
(* The DownloadManager with text tasks beside file tasks: up to            *)
(* MaxMixedTasks submissions of either kind.                               *)
(***************************************************************************)
NextText ==
    \/ Initialize
    \/ SubmitText
    \/ SubmitMedia
    \/ \E id \in Tasks : ExecuteDownloadResume(id)
    \/ \E id \in Tasks : RetryTimerFires(id)
    \/ \E id \in Tasks : CancelDownload(id)
    \/ \E id \in Tasks : RetryDownload(id)

SpecText == InitDM /\ [][NextText]_vars

\* The continuation of executeDownload is run by the event loop once the
\* promise it waits for has settled, and a timer that was set fires.
SpecTextFair ==
    /\ SpecText
    /\ \A id \in Tasks :
          WF_vars(ExecuteDownloadResume(id)) /\ WF_vars(RetryTimerFires(id))

----------------------------------------------------------------------------
(***************************************************************************)
(* The ErrorHandler on its own: callers run operations through             *)
(* handleNetworkError, concurrently and one after the other.               *)
(***************************************************************************)
InitRetry ==
    /\ EHConstructed
    /\ FnIdle
    /\ isOnline \in BOOLEAN
    /\ DMConstructed
    /\ maxConcurrentDownloads = DefaultMaxConcurrentDownloads
    /\ dmOnline = TRUE
    /\ PSConstructed
    /\ pxOnline = TRUE

NextCall == Len(calls) + 1

\* ErrorHandler.handleNetworkError(error, op, work) up to its first
\* suspension; plan is what work answers.
HandleNetworkErrorCall(error, op, plan) ==
    /\ NextCall <= MaxCalls
    /\ LET h == HandleNetworkError(error, retryAttempts[op], isOnline) IN
       /\ retryAttempts' = [retryAttempts EXCEPT ![op] = h.attempts]
       /\ calls' = Append(calls,
             [pc |-> IF h.pc = "micro" THEN "settled" ELSE h.pc,
              res |-> h.res, op |-> op, error |-> error, plan |-> plan,
              invoked |-> 0,
              delay |-> IF h.pc = "backoff"
                          THEN RetryOperationEntry(retryAttempts[op]).delay ELSE 0,
              startAttempts |-> retryAttempts[op], online |-> isOnline,
              alone |-> \A d \in 1..Len(calls) :
                           calls[d].op = op => calls[d].pc = "settled"])
    /\ UNCHANGED << isOnline, dmVars, pxVars, fnVars >>

\* the wait(delay) of retryOperation ends and the work unit is invoked
BackoffElapses(c) ==
    /\ c \in 1..Len(calls)
    /\ calls[c].pc = "backoff"
    /\ calls' = [calls EXCEPT ![c].pc = "work", ![c].invoked = @ + 1]
    /\ UNCHANGED << isOnline, retryAttempts, dmVars, pxVars, fnVars >>

\* the work unit returns and retryOperation goes on
WorkReturns(c) ==
    /\ c \in 1..Len(calls)
    /\ calls[c].pc = "work"
    /\ LET op == calls[c].op
           h == RetryOperationReturn(PlanAnswer(calls[c].plan, calls[c].invoked),
                                     retryAttempts[op])
       IN  /\ retryAttempts' = [retryAttempts EXCEPT ![op] = h.attempts]
           /\ calls' = [calls EXCEPT
                 ![c].pc = IF h.pc = "micro" THEN "settled" ELSE h.pc,
                 ![c].res = h.res,
                 ![c].delay = IF h.pc = "backoff"
                                THEN RetryOperationEntry(retryAttempts[op]).delay
                                ELSE @]
    /\ UNCHANGED << isOnline, dmVars, pxVars, fnVars >>

\* the window's online event
NetworkOnline ==
    /\ ~isOnline
    /\ isOnline' = TRUE
    /\ UNCHANGED << retryAttempts, calls, dmVars, pxVars, fnVars >>

\* the window's offline event
NetworkOffline ==
    /\ isOnline
    /\ isOnline' = FALSE
    /\ UNCHANGED << retryAttempts, calls, dmVars, pxVars, fnVars >>

NextRetry ==
    \/ \E error \in InitialErrors, op \in Operations, plan \in WorkPlans :
          HandleNetworkErrorCall(error, op, plan)
    \/ \E c \in 1..MaxCalls : BackoffElapses(c)
    \/ \E c \in 1..MaxCalls : WorkReturns(c)
    \/ NetworkOnline
    \/ NetworkOffline

SpecRetry == InitRetry /\ [][NextRetry]_vars

----------------------------------------------------------------------------
(***************************************************************************)
(* The ProxyService: callers run proxyGet, concurrently and one after the  *)
(* other, while the timers of setupHealthCheck reset the request counts    *)
(* every minute and probe the services every five minutes.                 *)
(***************************************************************************)
UrlSchemes == {"https", "http", "ftp"}

\* !this.securityManager.validateURLSafety(url): validateURLSafety returns
\* its result object, which is truthy whatever it holds
UrlSafetyCheckPasses(scheme) == TRUE

NewProxyCall ==
    [pc |-> "done", service |-> NoService, attempts |-> 0,
     maxAttempts |-> Cardinality(proxyServices), res |-> NoResult,
     error |-> NoResult, lastError |-> NoResult, epoch |-> 0]

\* no continuation of proxyGet or makeProxyRequest is pending
NoProxyMicrotask == \A c \in 1..Len(proxyCalls) : proxyCalls[c].pc = "done"

\* the service performHealthCheck probes after the one of index i
NextProbe(i) ==
    LET later == { j \in (i + 1)..Len(ServiceOrder) : ServiceOrder[j] \in proxyServices }
    IN  IF later = {} THEN 0 ELSE CHOOSE j \in later : \A k \in later : j <= k

InitProxy ==
    /\ PSConstructed
    /\ FnIdle
    /\ pxOnline \in BOOLEAN
    /\ DMConstructed
    /\ maxConcurrentDownloads = DefaultMaxConcurrentDownloads
    /\ dmOnline = TRUE
    /\ EHConstructed
    /\ isOnline = TRUE

\* ProxyService.initialize: validateProxyServices keeps the services whose
\* connectivity test answers, setupHealthCheck sets the two timers
ProxyInitialize(reachable) ==
    /\ ~pxInitialized
    /\ proxyServices = ServiceNames
    /\ proxyServices' = reachable
    /\ pxInitialized' = (reachable # {})
    /\ UNCHANGED << pxOnline, failureCount, circuitBreaker, requestCount, lastUsed,
                    now, proxyCalls, healthCheck, consecutiveFailures,
                    thirdFailureAt, successes, failedAttempts, openedAt,
                    attemptsInWindow, dmVars, ehVars, fnVars >>

\* ProxyService.proxyGet up to its first suspension
ProxyGet(scheme) ==
    /\ Len(proxyCalls) < MaxProxyCalls
    /\ LET r == IF ~pxInitialized
                  THEN [st |-> PSState,
                        call |-> [NewProxyCall EXCEPT !.res = NotInitializedError]]
                ELSE IF ~UrlSafetyCheckPasses(scheme)
                  THEN [st |-> PSState,
                        call |-> [NewProxyCall EXCEPT !.res = HttpsRequiredError]]
                ELSE IF ~ValidateHTTPS(scheme) /\ ~ValidateHTTPS(UpgradeToHTTPS(scheme))
                  THEN [st |-> PSState,
                        call |-> [NewProxyCall EXCEPT !.res = HttpsRequiredError]]
                ELSE ProxyGetLoop(PSState, NewProxyCall)
       IN  /\ SetPSState(r.st)
           /\ proxyCalls' = Append(proxyCalls, r.call)
    /\ UNCHANGED << pxInitialized, pxOnline, proxyServices, now, healthCheck,
                    dmVars, ehVars, fnVars >>

\* makeProxyRequest after its await: handleNetworkError has rejected, the
\* catch block records the failure and throws the error on
MakeProxyRequestSettle(c) ==
    /\ c \in 1..Len(proxyCalls)
    /\ proxyCalls[c].pc = "request"
    /\ LET h == HandleNetworkError(NetworkRequestPreparation, 0, pxOnline) IN
       /\ h.pc = "micro"
       /\ SetPSState(RecordFailure(PSState, proxyCalls[c].service))
       /\ proxyCalls' = [proxyCalls EXCEPT ![c].pc = "caught", ![c].error = h.res]
    /\ UNCHANGED << pxInitialized, pxOnline, proxyServices, now, healthCheck,
                    dmVars, ehVars, fnVars >>

\* proxyGet after its await: makeProxyRequest has rejected, the catch block
\* records the failure and the loop goes on
ProxyGetResume(c) ==
    /\ c \in 1..Len(proxyCalls)
    /\ proxyCalls[c].pc = "caught"
    /\ LET service == proxyCalls[c].service
           P1 == [RecordFailure(PSState, service) EXCEPT
                     !.failedAttempts[service] =
                         IF proxyCalls[c].epoch = successes[service] THEN @ + 1 ELSE @]
           r == ProxyGetLoop(P1, [proxyCalls[c] EXCEPT
                                     !.lastError = proxyCalls[c].error,
                                     !.attempts = @ + 1])
       IN  /\ SetPSState(r.st)
           /\ proxyCalls' = [proxyCalls EXCEPT ![c] = r.call]
    /\ UNCHANGED << pxInitialized, pxOnline, proxyServices, now, healthCheck,
                    dmVars, ehVars, fnVars >>

\* a minute passes: the one-minute timer runs resetRateLimits and, every
\* fifth minute, the other timer starts performHealthCheck
Tick ==
    /\ pxInitialized
    /\ now < MaxTime
    /\ NoProxyMicrotask
    /\ now' = now + 1
    /\ SetPSState(ResetRateLimits(PSState))
    /\ healthCheck' = IF (now + 1) % HealthCheckPeriod = 0 /\ healthCheck = 0
                        THEN NextProbe(0) ELSE healthCheck
    /\ UNCHANGED << pxInitialized, pxOnline, proxyServices, proxyCalls,
                    dmVars, ehVars, fnVars >>

\* performHealthCheck after an await: testProxyConnectivity has answered
HealthProbeReturns(isHealthy) ==
    /\ healthCheck # 0
    /\ LET service == ServiceOrder[healthCheck] IN
       SetPSState(ProbeResult(PSState, service, isHealthy))
    /\ healthCheck' = NextProbe(healthCheck)
    /\ UNCHANGED << pxInitialized, pxOnline, proxyServices, now, proxyCalls,
                    dmVars, ehVars, fnVars >>

NextProxy ==
    \/ \E reachable \in SUBSET ServiceNames : ProxyInitialize(reachable)
    \/ \E scheme \in UrlSchemes : ProxyGet(scheme)
    \/ \E c \in 1..MaxProxyCalls : MakeProxyRequestSettle(c)
    \/ \E c \in 1..MaxProxyCalls : ProxyGetResume(c)
    \/ Tick
    \/ \E isHealthy \in BOOLEAN : HealthProbeReturns(isHealthy)

SpecProxy == InitProxy /\ [][NextProxy]_vars

\* The continuations of makeProxyRequest and of proxyGet are run by the
\* event loop once the promise they wait for has settled.
NextProxyCalls ==
    \/ \E reachable \in SUBSET ServiceNames : ProxyInitialize(reachable)
    \/ \E scheme \in UrlSchemes : ProxyGet(scheme)
    \/ \E c \in 1..MaxProxyCalls : MakeProxyRequestSettle(c)
    \/ \E c \in 1..MaxProxyCalls : ProxyGetResume(c)
    \/ Tick

SpecProxyFair ==
    /\ InitProxy
    /\ [][NextProxyCalls]_vars
    /\ \A c \in 1..MaxProxyCalls :
          WF_vars(MakeProxyRequestSettle(c)) /\ WF_vars(ProxyGetResume(c))

----------------------------------------------------------------------------
(***************************************************************************)
(* cleanupCompletedDownloads on its own, called by the one-minute timer of *)
(* setupDownloadHandlers on tasks of any status and age.  Times are in     *)
(* hours.                                                                  *)
(***************************************************************************)
\* maxAge
MaxAge == 24

\* the statuses a task can be found in between two handlers
FoundStatuses ==
    {"queued", "downloading", "retrying", "processing",
     "completed", "failed", "cancelled"}

\* DownloadManager.cleanupCompletedDownloads: the downloads map it leaves
CleanupCompletedDownloads(ds, at) ==
    LET old == { id \in DOMAIN ds :
                    /\ ds[id].status \in {"completed", "failed"}
                    /\ at - ds[id].lastUpdate > MaxAge }
    IN  [id \in DOMAIN ds \ old |-> ds[id]]

InitRetention ==
    /\ \E ds \in [1..MaxRetained -> [status : FoundStatuses, lastUpdate : {0, 1}]],
          at \in {MaxAge, MaxAge + 1} :
          retention = [called |-> FALSE, before |-> ds, at |-> at, after |-> ds]
    /\ selected = NoCall
    /\ analyzed = << >>
    /\ tracked = << >>
    /\ observers = NoObservers
    /\ DMConstructed
    /\ maxConcurrentDownloads = DefaultMaxConcurrentDownloads
    /\ dmOnline = TRUE
    /\ EHConstructed
    /\ isOnline = TRUE
    /\ PSConstructed
    /\ pxOnline = TRUE

\* the timer's call of cleanupCompletedDownloads
CleanupCompletedDownloadsCall ==
    /\ ~retention.called
    /\ retention' = [retention EXCEPT
                        !.called = TRUE,
                        !.after = CleanupCompletedDownloads(retention.before,
                                                            retention.at)]
    /\ UNCHANGED << selected, analyzed, tracked, observers,
                    dmVars, ehVars, pxVars >>

NextRetention == CleanupCompletedDownloadsCall

SpecRetention == InitRetention /\ [][NextRetention]_vars

----------------------------------------------------------------------------
(***************************************************************************)
(* progressTracker on its own, called by the transfer with the loaded and  *)
(* total byte counts of a progress event.                                  *)
(***************************************************************************)
\* Math.round((loaded / total) * 100): the nearest integer, halves up
RoundedPercent(loaded, total) == (200 * loaded + total) \div (2 * total)

\* progressTracker: the value it stores on the task and pushes to the
\* progress observers
ProgressTracker(loaded, total) ==
    LET progress == IF total > 0 THEN RoundedPercent(loaded, total) ELSE 0
    IN  [loaded |-> loaded, total |-> total,
         stored |-> progress, pushed |-> progress]

InitProgress ==
    /\ FnIdle
    /\ DMConstructed
    /\ maxConcurrentDownloads = DefaultMaxConcurrentDownloads
    /\ dmOnline = TRUE
    /\ EHConstructed
    /\ isOnline = TRUE
    /\ PSConstructed
    /\ pxOnline = TRUE

\* a progress event of the transfer
ProgressTrackerCall(loaded, total) ==
    /\ Len(tracked) < MaxTracked
    /\ tracked' = Append(tracked, ProgressTracker(loaded, total))
    /\ UNCHANGED << selected, analyzed, retention, observers,
                    dmVars, ehVars, pxVars >>

NextProgress ==
    \E loaded \in 0..MaxLoaded, total \in 0..MaxTotal :
       ProgressTrackerCall(loaded, total)

SpecProgress == InitProgress /\ [][NextProgress]_vars

----------------------------------------------------------------------------
(***************************************************************************)
(* The progress observers: callers register callbacks with                 *)
(* onProgressUpdate at any moment, and the transfers and the text          *)
(* conversion emit updates with notifyProgressUpdate.  A callback records  *)
(* the update it is called with, and then returns or throws.               *)
(***************************************************************************)
CallbackKinds == {"returns", "throws"}

\* the progress values of the updates: of a progress event, and the 100 of
\* executeTextDownload
ProgressUpdates == {50, 100}

\* DownloadManager.onProgressUpdate
OnProgressUpdate(O, callback) ==
    [O EXCEPT !.progressCallbacks = Append(@, callback),
              !.delivered = Append(@, << >>),
              !.registeredAt = Append(@, Len(O.emitted))]

\* forEach without the try/catch around the callback: the exception of a
\* callback ends the iteration
RECURSIVE ForEachCallbackNoCatch(_, _, _, _)
ForEachCallbackNoCatch(callbacks, delivered, progress, i) ==
    IF i > Len(callbacks)
      THEN delivered
      ELSE LET called == [delivered EXCEPT ![i] = Append(@, progress)] IN
           IF callbacks[i] = "throws"
             THEN called
             ELSE ForEachCallbackNoCatch(callbacks, called, progress, i + 1)

\* notifyProgressUpdate letting the exception of a callback through
NotifyProgressUpdateNoCatch(O, progress) ==
    [O EXCEPT !.emitted = Append(@, progress),
              !.delivered = ForEachCallbackNoCatch(O.progressCallbacks, @, progress, 1)]

\* progressCallbacks.forEach(callback => { try { callback(...) } catch ... }):
\* every callback from the i-th on is called, whatever the ones before did
RECURSIVE ForEachCallback(_, _, _, _)
ForEachCallback(callbacks, delivered, progress, i) ==
    IF i > Len(callbacks)
      THEN delivered
      ELSE ForEachCallback(callbacks,
                           [delivered EXCEPT ![i] = Append(@, progress)],
                           progress, i + 1)

\* DownloadManager.notifyProgressUpdate
NotifyProgressUpdate(O, progress) ==
    [O EXCEPT !.emitted = Append(@, progress),
              !.delivered = ForEachCallback(O.progressCallbacks, @, progress, 1)]

InitObservers ==
    /\ FnIdle
    /\ DMConstructed
    /\ maxConcurrentDownloads = DefaultMaxConcurrentDownloads
    /\ dmOnline = TRUE
    /\ EHConstructed
    /\ isOnline = TRUE
    /\ PSConstructed
    /\ pxOnline = TRUE

\* a caller registers a callback
OnProgressUpdateCall(callback) ==
    /\ Len(observers.progressCallbacks) < MaxObservers
    /\ observers' = OnProgressUpdate(observers, callback)
    /\ UNCHANGED << selected, analyzed, retention, tracked,
                    dmVars, ehVars, pxVars >>

\* a transfer or a text conversion emits an update
NotifyProgressUpdateCall(progress) ==
    /\ Len(observers.emitted) < MaxEmitted
    /\ observers' = NotifyProgressUpdate(observers, progress)
    /\ UNCHANGED << selected, analyzed, retention, tracked,
                    dmVars, ehVars, pxVars >>

NextObservers ==
    \/ \E callback \in CallbackKinds : OnProgressUpdateCall(callback)
    \/ \E progress \in ProgressUpdates : NotifyProgressUpdateCall(progress)

SpecObservers == InitObservers /\ [][NextObservers]_vars

----------------------------------------------------------------------------
(***************************************************************************)
(* selectBestProxy on its own, called in any state of the three services:  *)
(* each has been used at some time, has some requests in the current       *)
(* window, and has its circuit closed or opened at time 0.                 *)
(***************************************************************************)
SelectTimes == {1, Cooldown, Cooldown + 1}

InitSelect ==
    /\ pxInitialized = TRUE
    /\ pxOnline = TRUE
    /\ proxyServices = ServiceNames
    /\ lastUsed \in [ServiceNames -> 0..MaxLastUsed]
    /\ requestCount \in [ServiceNames -> 0..SmallRateLimit]
    /\ circuitBreaker \in [ServiceNames -> {NoBreaker, 0}]
    /\ now \in SelectTimes
    /\ openedAt = circuitBreaker
    /\ failureCount = [e \in ServiceNames |->
                          IF circuitBreaker[e] = NoBreaker THEN 0
                          ELSE FailureThreshold + 1]
    /\ consecutiveFailures = failureCount
    /\ thirdFailureAt = circuitBreaker
    /\ failedAttempts = [e \in ServiceNames |-> 0]
    /\ successes = [e \in ServiceNames |-> 0]
    /\ attemptsInWindow = requestCount
    /\ proxyCalls = << >>
    /\ healthCheck = 0
    /\ FnIdle
    /\ DMConstructed
    /\ maxConcurrentDownloads = DefaultMaxConcurrentDownloads
    /\ dmOnline = TRUE
    /\ EHConstructed
    /\ isOnline = TRUE

\* a call of ProxyService.selectBestProxy: its answer, and the breakers
\* that isServiceAvailable deletes on the way
SelectBestProxyCall ==
    /\ selected' = [called |-> TRUE, before |-> PSState, at |-> now,
                    answer |-> SelectBestProxy(PSState)]
    /\ SetPSState(AfterAvailabilityChecks(PSState))
    /\ UNCHANGED << pxInitialized, pxOnline, proxyServices, now, proxyCalls,
                    healthCheck, analyzed, retention, tracked, observers,
                    dmVars, ehVars >>

NextSelect == SelectBestProxyCall

SpecSelect == InitSelect /\ [][NextSelect]_vars

----------------------------------------------------------------------------
(***************************************************************************)
(* analyzeError on its own.  Its inputs are the errors that the code and   *)
(* its tests construct, each with the condition that produces it: a        *)
(* transport failure, a deadline, a cross-origin rejection, a certificate  *)
(* failure or an HTTP status.                                              *)
(***************************************************************************)
Sample(cause, status, error) == [cause |-> cause, status |-> status, error |-> error]

\* testDataGenerators.generateNetworkErrors
TestNetworkErrors ==
    { Sample("transport", 0, FetchTypeError),
      Sample("transport", 0, NetworkRequestFailed),
      Sample("deadline", 0, Err("Error", "Connection timeout", {"timeout"})),
      Sample("deadline", 0, Err("Error", "Request timeout after 30000ms", {"timeout"})) }

\* testDataGenerators.generateCORSErrors
TestCORSErrors ==
    { Sample("cors", 0, Err("Error", "CORS policy blocked the request", {"CORS"})),
      Sample("cors", 0, Err("Error", "Access to fetch blocked by CORS policy",
                            {"fetch", "CORS"})),
      Sample("cors", 0, Err("Error", "Cross-Origin Request Blocked", {})) }

\* testDataGenerators.generateSSLErrors
TestSSLErrors ==
    { Sample("certificate", 0, Err("Error", "SSL certificate verification failed",
                                   {"SSL", "certificate"})),
      Sample("certificate", 0, Err("Error", "Invalid SSL certificate",
                                   {"SSL", "certificate"})),
      Sample("certificate", 0, Err("Error", "Certificate has expired", {})) }

\* the status codes of the answers that are not ok
HttpStatuses == {400, 401, 403, 404, 500, 502, 503, 504}

\* the substrings analyzeError looks for in a message that shows the status
StatusHas(status) ==
    CASE status = 401 -> {"401"}
      [] status = 403 -> {"403"}
      [] status = 404 -> {"404"}
      [] status = 500 -> {"500"}
      [] status = 502 -> {"502"}
      [] status = 503 -> {"503"}
      [] OTHER -> {}

\* `HTTP ${response.status}: ${response.statusText}` of makeProxyRequest and
\* the errors of testDataGenerators.generateHTTPErrors
HttpStatusErrors ==
    { Sample("http", st, Err("Error", "HTTP status", StatusHas(st))) : st \in HttpStatuses }

\* the rejections of downloadFileWithProgress
XhrErrors ==
    { Sample("http", st, Err("Error", "download failed: HTTP status", StatusHas(st))) :
         st \in HttpStatuses }
    \cup { Sample("transport", 0, Err("Error", "xhr network error", {})),
           Sample("deadline", 0, Err("Error", "xhr download timeout", {})) }

\* the abort of makeProxyRequest at the service's timeout
ProxyTimeoutError == Sample("deadline", 0, Err("Error", "proxy request timeout", {}))

\* errors of no condition of the table
OtherErrors ==
    { Sample("other", 0, DownloadPreparation),
      Sample("other", 0, TextProcessingError) }

Samples ==
    TestNetworkErrors \cup TestCORSErrors \cup TestSSLErrors \cup HttpStatusErrors
    \cup XhrErrors \cup {ProxyTimeoutError} \cup OtherErrors

InitAnalyze ==
    /\ EHConstructed
    /\ isOnline = TRUE
    /\ FnIdle
    /\ DMConstructed
    /\ maxConcurrentDownloads = DefaultMaxConcurrentDownloads
    /\ dmOnline = TRUE
    /\ PSConstructed
    /\ pxOnline = TRUE

\* a call of ErrorHandler.analyzeError
AnalyzeErrorCall(sample) ==
    /\ Len(analyzed) < MaxAnalyses
    /\ analyzed' = Append(analyzed, [sample |-> sample,
                                     info |-> AnalyzeError(sample.error)])
    /\ UNCHANGED << selected, retention, tracked, observers,
                    dmVars, ehVars, pxVars >>

NextAnalyze == \E sample \in Samples : AnalyzeErrorCall(sample)

SpecAnalyze == InitAnalyze /\ [][NextAnalyze]_vars

(***************************************************************************)
(* Properties of the transfer scheduler.                                   *)
(***************************************************************************)
Known == DOMAIN downloads
StatusOf(t) == downloads[t].status
IsFile(t) == downloads[t].type \in {"media", "pdf"}
InQueue(q, t) == \E i \in 1..Len(q) : q[i] = t
CountStatus(st) == Cardinality({t \in Known : StatusOf(t) = st})
TerminalStatus == {"completed", "failed", "cancelled"}

\* C1: in every reachable state of the scheduler the number of running
\* transfers is at most the concurrency limit:
\* activeDownloads <= maxConcurrentDownloads.
C1_ConcurrencyGate == activeDownloads <= maxConcurrentDownloads

\* the gate is full, a task waits in the queue and a task has already been
\* through a timer-driven retry
C1_Witness ==
    /\ activeDownloads = maxConcurrentDownloads
    /\ Len(downloadQueue) > 0
    /\ \E t \in Known : downloads[t].retryCount > 0

\* C6 (scenario B): with a limit of 2 and 4 file tasks submitted back to
\* back, exactly 2 are downloading and 2 are queued; and whenever a running
\* task reaches a terminal state while tasks are queued, exactly the head of
\* the queue goes to downloading and the rest of the queue stays queued.
C6_BackToBack ==
    (/\ maxConcurrentDownloads = 2
     /\ Known = 1..4
     /\ \A t \in Known : /\ IsFile(t)
                         /\ downloads[t].retryCount = 0
                         /\ StatusOf(t) \in {"pending", "downloading", "queued"})
    => (CountStatus("downloading") = 2 /\ CountStatus("queued") = 2)

C6_AdmitOnTerminal ==
    \A t \in Known :
       (/\ StatusOf(t) = "downloading"
        /\ downloads'[t].status \in TerminalStatus
        /\ Len(downloadQueue) > 0)
       => /\ downloads'[Head(downloadQueue)].status = "downloading"
          /\ downloadQueue' = Tail(downloadQueue)
          /\ \A u \in Known \ {t, Head(downloadQueue)} :
                 downloads'[u].status = StatusOf(u)

C6_ScenarioB == [](C6_BackToBack) /\ [][C6_AdmitOnTerminal]_vars

\* C7 (scenario C): a file task whose transfer fails twice with a network
\* error and succeeds on the third attempt ends completed with retryCount 2.
C7_ScenarioC ==
    TransferPlan = << FetchTypeError, FetchTypeError, Ok >>
    => \A t \in Known :
          (IsFile(t) /\ run[t].pc = "none" /\ StatusOf(t) \in {"completed", "failed"})
          => (StatusOf(t) = "completed" /\ downloads[t].retryCount = 2)

\* C8 (scenario D): cancelling a queued task sets it cancelled, removes it
\* from the queue and leaves activeDownloads unchanged, and the task never
\* has status downloading afterwards (it stays cancelled, with no
\* invocation of executeDownload for it).
CancelledWhileQueued(t) == StatusOf(t) = "cancelled" /\ run[t].pc = "none"

C8_Step ==
    \A t \in Known :
       /\ (StatusOf(t) = "queued" /\ downloads'[t].status = "cancelled")
          => /\ ~InQueue(downloadQueue', t)
             /\ activeDownloads' = activeDownloads
             /\ run'[t].pc = "none"
       /\ CancelledWhileQueued(t)
          => /\ downloads'[t].status = "cancelled"
             /\ run'[t].pc = "none"
             /\ ~InQueue(downloadQueue', t)

C8_CancelQueued == [][C8_Step]_vars

\* a task was cancelled in the queue and a task submitted after it has been
\* started since
C8_Witness ==
    \E t, u \in Known :
       /\ t < u
       /\ CancelledWhileQueued(t)
       /\ ~InQueue(downloadQueue, t)
       /\ StatusOf(u) \in {"downloading", "retrying", "failed"}

\* C9: cancelling a downloading task marks it cancelled; the result of the
\* transfer still in flight is discarded: the status stays cancelled for
\* ever and no completion or error notification is emitted for the task.
C9_Step ==
    \A t \in Known :
       /\ (StatusOf(t) = "downloading" /\ downloads'[t].status = "cancelled")
          => run'[t] = run[t]
       /\ StatusOf(t) = "cancelled"
          => /\ downloads'[t].status = "cancelled"
             /\ completionNotified'[t] = completionNotified[t]
             /\ errorNotified'[t] = errorNotified[t]

C9_CancelDownloading == [][C9_Step]_vars

(***************************************************************************)
(* Properties of the retry coordinator.                                    *)
(***************************************************************************)
Settled(c) == calls[c].pc = "settled"

\* no other call on the same operation id was in progress during call c
Sequential(c) ==
    /\ calls[c].alone
    /\ \A d \in (c + 1)..Len(calls) : calls[d].op = calls[c].op => calls[d].alone
Retryable(e) == IsError(e) /\ AnalyzeError(e).isRetryable

\* the work unit fails with a retryable error at every invocation
AlwaysFails(plan) == Len(plan) = 1 /\ Retryable(plan[1])

\* the work unit fails with a retryable error k times and then succeeds
FailsThenSucceeds(plan, k) ==
    /\ Len(plan) = k + 1
    /\ plan[k + 1] = Ok
    /\ \A i \in 1..k : Retryable(plan[i])

\* C3: run while online on a retryable error, with a work unit that always
\* fails with a retryable error, the coordinator invokes the work unit
\* exactly maxRetries + 1 times and then propagates the failure.
C3_AlwaysFailing ==
    \A c \in 1..Len(calls) :
       (/\ Settled(c)
        /\ calls[c].online
        /\ Retryable(calls[c].error)
        /\ calls[c].startAttempts = 0
        /\ Sequential(c)
        /\ AlwaysFails(calls[c].plan))
       => (calls[c].invoked = MaxRetries + 1 /\ IsError(calls[c].res))

\* C4: run while online on a retryable error, with a work unit that fails
\* with a retryable error k < maxRetries times and then succeeds, the
\* coordinator returns the success, has invoked the work unit k + 1 times
\* and leaves no attempt counter for the operation id.
C4_EventualSuccess ==
    \A c \in 1..Len(calls) : \A k \in 0..(MaxRetries - 1) :
       (/\ Settled(c)
        /\ calls[c].online
        /\ Retryable(calls[c].error)
        /\ Sequential(c)
        /\ FailsThenSucceeds(calls[c].plan, k))
       => /\ calls[c].res = Ok
          /\ calls[c].invoked = k + 1
          /\ (\A d \in (c + 1)..Len(calls) : calls[d].op # calls[c].op)
             => retryAttempts[calls[c].op] = 0

(***************************************************************************)
(* Properties of the proxy service.                                        *)
(***************************************************************************)
AllOrigins == ServiceOrder[1]

\* a request of some proxyGet call is under way on service e
InFlight(e) ==
    \E c \in 1..Len(proxyCalls) :
       proxyCalls[c].pc \in {"request", "caught"} /\ proxyCalls[c].service = e

\* C2: for every endpoint E, after 3 recordFailure(E) calls in a row (no
\* recordSuccess(E) in between, from a zero failure count) and until the
\* cooldown of 5 minutes has passed, isServiceAvailable(E) is false and
\* selectBestProxy does not return E.
C2_OpenAfterThreeFailures ==
    \A e \in proxyServices :
       (/\ consecutiveFailures[e] >= FailureThreshold
        /\ now < thirdFailureAt[e] + Cooldown)
       => /\ ~IsServiceAvailable(PSState, e)
          /\ SelectBestProxy(PSState) # e

\* C5: an endpoint is sent at most rateLimit requests in one window, a
\* further attempt finds checkRateLimit false and is not dispatched (already
\* with a single proxyGet caller); and resetRateLimits leaves every
\* requestCount at 0 and checkRateLimit true.
C5_WithinBudget ==
    Len(proxyCalls) <= 1
    => \A e \in proxyServices :
          /\ attemptsInWindow[e] <= RateLimit(e)
          /\ attemptsInWindow[e] >= RateLimit(e) /\ ~InFlight(e)
             => ~CheckRateLimit(PSState, e)

C5_ResetStep ==
    now' # now
    => \A e \in proxyServices :
          requestCount'[e] = 0 /\ requestCount'[e] < RateLimit(e)

C5_RateLimit == [](C5_WithinBudget) /\ [][C5_ResetStep]_vars

----------------------------------------------------------------------------
\* C11: for every task submitted and still retained, whatever its status
\* has become, getDownloadProgress(id) answers a record with the id, the
\* target (url) and the destination name (filename) that were submitted.
C11_RoundTrip ==
    \A t \in Known :
       LET r == GetDownloadProgress(DMState, t) IN
       /\ r.id = t
       /\ r.filename = SubmittedFilename(t)
       /\ "url" \in DOMAIN r
       /\ r.url = SubmittedUrl(t)

\* C13: a submit call (downloadMediaFile, downloadPDFFile) only records
\* the task and returns: no submit call is still pending while an attempt
\* on its task is under way.
C13_SubmitDoesNotWait ==
    \A t \in Known : ~(submitCall[t] = "awaiting" /\ run[t].pc # "none")

----------------------------------------------------------------------------
\* the circuit of e is open at time t: it was opened and its timeout has
\* not passed
CircuitOpen(P, e, t) ==
    P.circuitBreaker[e] # NoBreaker /\ ~(t - P.circuitBreaker[e] > Cooldown)

\* the services that pass both filters in state P at time t
Eligible(P, t) ==
    { e \in ServiceNames : ~CircuitOpen(P, e, t) /\ P.requestCount[e] < RateLimit(e) }

\* C12: selectBestProxy answers a service only if its circuit is not open
\* and its requestCount is below its rateLimit; the service answered has
\* the least lastUsed of all such services; the answer is null exactly
\* when there is no such service.
C12_SelectBestProxy ==
    selected.called
    => LET P == selected.before
           ok == Eligible(P, selected.at)
       IN  /\ selected.answer # NoService
              => /\ selected.answer \in ok
                 /\ \A e \in ok : P.lastUsed[selected.answer] <= P.lastUsed[e]
           /\ selected.answer = NoService <=> ok = {}

\* selectBestProxy passed over an open circuit and over a service used
\* more recently, and answered the service used least recently
C12_Witness ==
    /\ selected.called
    /\ selected.answer # NoService
    /\ \E e \in ServiceNames : CircuitOpen(selected.before, e, selected.at)
    /\ \E e \in Eligible(selected.before, selected.at) :
          selected.before.lastUsed[e] > selected.before.lastUsed[selected.answer]

----------------------------------------------------------------------------
\* the classification table: what each condition is to be classified as
Classification(type, isRetryable, severity) ==
    [type |-> type, isRetryable |-> isRetryable, severity |-> severity]

TableEntry(sample) ==
    CASE sample.cause = "transport" -> Classification("network", TRUE, "high")
      [] sample.cause = "deadline" -> Classification("timeout", TRUE, "medium")
      [] sample.cause = "cors" -> Classification("cors", FALSE, "high")
      [] sample.cause = "certificate" -> Classification("ssl", FALSE, "high")
      [] sample.cause = "http" /\ sample.status = 404 ->
             Classification("notfound", FALSE, "low")
      [] sample.cause = "http" /\ sample.status \in {401, 403} ->
             Classification("auth", FALSE, "medium")
      [] sample.cause = "http" /\ sample.status \in 500..599 ->
             Classification("server", TRUE, "high")
      [] OTHER -> Classification("unknown", FALSE, "medium")

\* C14: analyzeError classifies every failure as the table says: a
\* transport failure network/retryable/high, a deadline
\* timeout/retryable/medium, a cross-origin rejection cors/no/high, a
\* certificate failure ssl/no/high, 404 notfound/no/low, 401 and 403
\* auth/no/medium, 5xx server/retryable/high, anything else
\* unknown/no/medium; so every transport failure and every deadline is
\* network or timeout, and retryable.
C14_ClassificationTable ==
    \A i \in 1..Len(analyzed) :
       /\ analyzed[i].info = TableEntry(analyzed[i].sample)
       /\ analyzed[i].sample.cause \in {"transport", "deadline"}
          => /\ analyzed[i].info.type \in {"network", "timeout"}
             /\ analyzed[i].info.isRetryable

----------------------------------------------------------------------------
\* the work unit of call c is returning an error of a non-retryable kind
NonRetryableFailure(c) ==
    /\ calls[c].pc = "work"
    /\ IsError(PlanAnswer(calls[c].plan, calls[c].invoked))
    /\ ~AnalyzeError(PlanAnswer(calls[c].plan, calls[c].invoked)).isRetryable

C15_Step ==
    \A c \in 1..Len(calls) :
       /\ (NonRetryableFailure(c) /\ calls'[c] # calls[c])
          => /\ calls'[c].pc = "settled"
             /\ calls'[c].res = PlanAnswer(calls[c].plan, calls[c].invoked)
             /\ calls'[c].invoked = calls[c].invoked
             /\ calls'[c].delay = calls[c].delay
             /\ retryAttempts' = retryAttempts
       /\ Settled(c) => calls'[c] = calls[c]

\* C15: when the work unit fails with an error of a non-retryable kind,
\* the call ends at once with that error: the work unit is not invoked
\* again, no backoff wait is begun, and the step leaves the attempt
\* counter as it was.
C15_NonRetryablePropagates == [][C15_Step]_vars

\* a call has ended with the non-retryable error of its work unit while
\* the budget of its operation was not used up, after a first retryable
\* failure of the work unit
C15_Witness ==
    \E c \in 1..Len(calls) :
       /\ Settled(c)
       /\ calls[c].invoked = 2
       /\ calls[c].res = NotFoundError
       /\ retryAttempts[calls[c].op] < MaxRetries

----------------------------------------------------------------------------
\* the step is a call of retryDownload, with this id
RetryDownloadCalled == Len(manualRetries') > Len(manualRetries)
RetryDownloadId == manualRetries'[Len(manualRetries')]

C16_Step ==
    RetryDownloadCalled
    => IF RetryDownloadId \in Known /\ StatusOf(RetryDownloadId) = "failed"
         THEN /\ downloads'[RetryDownloadId].retryCount = 0
              /\ downloads'[RetryDownloadId].progress = 0
              /\ downloads'[RetryDownloadId].error = NoResult
              /\ IF activeDownloads < maxConcurrentDownloads
                   THEN /\ downloads'[RetryDownloadId].status = "downloading"
                        /\ run'[RetryDownloadId].pc # "none"
                        /\ activeDownloads' = activeDownloads + 1
                        /\ downloadQueue' = downloadQueue
                   ELSE /\ downloads'[RetryDownloadId].status = "queued"
                        /\ downloadQueue' = Append(downloadQueue, RetryDownloadId)
                        /\ activeDownloads' = activeDownloads
                        /\ run' = run
              /\ \A t \in Known \ {RetryDownloadId} : downloads'[t] = downloads[t]
         ELSE /\ downloads' = downloads
              /\ downloadQueue' = downloadQueue
              /\ activeDownloads' = activeDownloads
              /\ run' = run

\* C16: retryDownload(id) on a failed task sets its retryCount and
\* progress to 0, clears its error and puts it through the gate (started
\* if a slot is free, else queued at the tail); on a task of any other
\* status, or an unknown id, it changes no task, nor the queue, nor
\* activeDownloads.
C16_RetryDownload == [][C16_Step]_vars

\* retryDownload has restarted a task that had failed after all its retries
C16_Witness ==
    /\ manualRetries # << >>
    /\ manualRetries[1] \in Known
    /\ errorNotified[manualRetries[1]] >= 1
    /\ StatusOf(manualRetries[1]) = "downloading"
    /\ downloads[manualRetries[1]].retryCount = 0
    /\ downloads[manualRetries[1]].error = NoResult

----------------------------------------------------------------------------
\* the tasks of the queue q
Queued(q) == { q[i] : i \in 1..Len(q) }

C17_Step ==
    /\ \A i \in 1..Len(downloadQueue) :
          LET t == downloadQueue[i] IN
          \* a task leaves the queue only started or cancelled, and a task
          \* waiting in the queue is not started from elsewhere
          /\ IF t \in Queued(downloadQueue')
               THEN run'[t].pc = "none"
               ELSE downloads'[t].status \in {"downloading", "cancelled"}
          /\ \A j \in (i + 1)..Len(downloadQueue) :
                LET u == downloadQueue[j] IN
                \* u does not start while t, queued before it, stays behind
                /\ ~(/\ downloads'[u].status = "downloading"
                     /\ downloads'[t].status \notin {"downloading", "cancelled"})
                \* the order of the tasks that stay in the queue stays
                /\ \A k, m \in 1..Len(downloadQueue') :
                      (downloadQueue'[k] = t /\ downloadQueue'[m] = u) => k < m
    \* a task is put into the queue behind every task that is in it
    /\ \A k, m \in 1..Len(downloadQueue') :
          (/\ downloadQueue'[k] \in Queued(downloadQueue)
           /\ downloadQueue'[m] \notin Queued(downloadQueue))
          => k < m

\* C17: of two tasks that are both in the queue, neither cancelled there,
\* the one that was put in earlier enters downloading before the other.
C17_FIFO == [][C17_Step]_vars

\* with two slots, task 3 was taken from the queue and is in its first
\* attempt while task 4, queued after it, is still waiting
C17_Witness ==
    /\ maxConcurrentDownloads = 2
    /\ manualRetries = << >>
    /\ 4 \in Known
    /\ StatusOf(3) = "downloading"
    /\ downloads[3].retryCount = 0
    /\ run[3].pc # "none"
    /\ submitCall[3] = "returned"
    /\ downloadQueue = << 4 >>
    /\ StatusOf(4) = "queued"

----------------------------------------------------------------------------
\* call c got as far as the loop of proxyGet
InLoop(c) == proxyCalls[c].res \notin {NotInitializedError, HttpsRequiredError}

C18_Outcome ==
    \A c \in 1..Len(proxyCalls) :
       /\ proxyCalls[c].attempts <= proxyCalls[c].maxAttempts
       /\ (InLoop(c) /\ proxyCalls[c].pc = "done")
          => \/ /\ proxyCalls[c].res = NoProxyAvailable
                /\ proxyCalls[c].attempts < proxyCalls[c].maxAttempts
             \/ proxyCalls[c].res = Ok
             \/ /\ proxyCalls[c].res = AllProxiesFailed(proxyCalls[c].error)
                /\ proxyCalls[c].lastError = proxyCalls[c].error
                /\ IsError(proxyCalls[c].error)
                /\ proxyCalls[c].attempts = proxyCalls[c].maxAttempts

\* the iteration that finds no service dispatches nothing, and a call
\* that has ended does nothing more
C18_Step ==
    \A c \in 1..Len(proxyCalls) :
       /\ (proxyCalls[c].pc # "done" /\ proxyCalls'[c].res = NoProxyAvailable)
          => attemptsInWindow' = attemptsInWindow
       /\ proxyCalls[c].pc = "done" => proxyCalls'[c] = proxyCalls[c]

C18_EveryCallEnds ==
    \A c \in 1..MaxProxyCalls :
       (Len(proxyCalls) >= c) ~> (Len(proxyCalls) >= c /\ proxyCalls[c].pc = "done")

----------------------------------------------------------------------------
\* the step is a recordSuccess(e)
RecordSuccessCalled(e) == successes'[e] # successes[e]

C19_Step ==
    \A e \in ServiceNames :
       RecordSuccessCalled(e)
       => /\ failureCount'[e] = 0
          /\ circuitBreaker'[e] = NoBreaker
          /\ \A f \in ServiceNames \ {e} :
                /\ failureCount'[f] = failureCount[f]
                /\ circuitBreaker'[f] = circuitBreaker[f]
                /\ requestCount'[f] = requestCount[f]
                /\ lastUsed'[f] = lastUsed[f]

\* fewer than 3 failures recorded for e since its last success (or since
\* the start): its circuit is not open
C19_NoEarlyOpen ==
    \A e \in ServiceNames :
       consecutiveFailures[e] < FailureThreshold => circuitBreaker[e] = NoBreaker

\* C19: recordSuccess(E) sets the failure count of E to 0 and removes its
\* breaker, and changes nothing of any other service; so only failures
\* with no success in between count: two failures, a success and two
\* more failures leave the circuit of E closed.
C19_RecordSuccess == [][C19_Step]_vars /\ [](C19_NoEarlyOpen)

\* AllOrigins is the only service; two calls made one attempt each, which
\* is two recordFailure each; a success was recorded in between, two
\* failures before it and two after it; the circuit is closed
C19_Witness ==
    /\ proxyServices = {AllOrigins}
    /\ Len(proxyCalls) = 2
    /\ \A c \in 1..2 : /\ proxyCalls[c].pc = "done"
                        /\ proxyCalls[c].attempts = 1
    /\ successes[AllOrigins] = 1
    /\ consecutiveFailures[AllOrigins] = 2
    /\ failureCount[AllOrigins] = 2
    /\ circuitBreaker[AllOrigins] = NoBreaker

----------------------------------------------------------------------------
C20_Step ==
    \A c \in 1..Len(proxyCalls) :
       (/\ proxyCalls[c].pc = "caught"
        /\ proxyCalls'[c].attempts = proxyCalls[c].attempts + 1)
       => /\ requestCount'[proxyCalls[c].service] =
                requestCount[proxyCalls[c].service] + 1
          /\ lastUsed'[proxyCalls[c].service] = now

\* C20: every attempt of proxyGet, failed ones included, sets lastUsed of
\* the service it chose to the current time and adds one to its
\* requestCount.
C20_EveryAttemptCounts == [][C20_Step]_vars

----------------------------------------------------------------------------
\* service f passes both filters of selectBestProxy after the step
PassesFiltersAfter(f) ==
    /\ f \in proxyServices
    /\ circuitBreaker'[f] = NoBreaker \/ now - circuitBreaker'[f] > Cooldown
    /\ requestCount'[f] < RateLimit(f)

C21_Step ==
    \A c \in 1..Len(proxyCalls) :
       (/\ proxyCalls[c].pc = "caught"
        /\ proxyCalls'[c].pc = "request"
        /\ \E f \in ServiceNames \ {proxyCalls[c].service} : PassesFiltersAfter(f))
       => proxyCalls'[c].service # proxyCalls[c].service

\* C21: within one call of proxyGet, the iteration after a failed attempt
\* on a service attempts another service whenever another one passes the
\* circuit and rate-limit filters.
C21_Failover == [][C21_Step]_vars

----------------------------------------------------------------------------
\* the two catch blocks that one failed attempt of call c runs through:
\* together they add one to the failure count of the service
C22_Step ==
    \A c \in 1..Len(proxyCalls) :
       LET e == proxyCalls[c].service IN
       /\ (proxyCalls[c].pc = "request" /\ proxyCalls'[c].pc = "caught")
          => failureCount'[e] = failureCount[e] + 1
       /\ (proxyCalls[c].pc = "caught" /\ proxyCalls'[c] # proxyCalls[c])
          => failureCount'[e] = failureCount[e]

\* before the first health check, a circuit is open only after 3 failed
\* attempts on the service
C22_OpenOnlyAfterThree ==
    now < HealthCheckPeriod
    => \A e \in ServiceNames :
          circuitBreaker[e] # NoBreaker => failedAttempts[e] >= FailureThreshold

\* C22: a failed attempt of proxyGet on a service (or a failed health
\* probe) adds exactly one to its failure count, so a circuit is open only
\* after at least 3 failed attempts in a row.
C22_NoPrematureOpening == [][C22_Step]_vars /\ [](C22_OpenOnlyAfterThree)
\* the timeout of the open circuit of e has passed
CooldownElapsed(e) ==
    circuitBreaker[e] # NoBreaker /\ now - circuitBreaker[e] > Cooldown

\* the circuit of e was opened, the availability query has cleared it and
\* no success has been recorded since
HalfOpen(e) == circuitBreaker[e] = NoBreaker /\ openedAt[e] # NoBreaker

\* the step runs selectBestProxy and dispatches an attempt
Dispatches(c) ==
    /\ c \in 1..Len(proxyCalls')
    /\ proxyCalls'[c].pc = "request"
    /\ c > Len(proxyCalls) \/ proxyCalls[c].pc = "caught"

C23_Step ==
    \A e \in proxyServices :
       \* the query clears the circuit, and e is the answer if it has the
       \* budget and no service comes before it
       /\ (/\ CooldownElapsed(e)
           /\ failureCount'[e] = failureCount[e]
           /\ \E c \in 1..MaxProxyCalls : Dispatches(c))
          => /\ circuitBreaker'[e] = NoBreaker
             /\ (/\ requestCount[e] < RateLimit(e)
                 /\ \A f \in proxyServices \ {e} :
                       \/ circuitBreaker'[f] # NoBreaker
                       \/ IndexOf(e) < IndexOf(f))
                => \E c \in 1..MaxProxyCalls :
                      Dispatches(c) /\ proxyCalls'[c].service = e
       \* a failure of the next attempt opens it again, as of now
       /\ (HalfOpen(e) /\ failureCount'[e] > failureCount[e])
          => circuitBreaker'[e] = now
       \* a success leaves it closed with no failure counted
       /\ ((HalfOpen(e) \/ CooldownElapsed(e)) /\ RecordSuccessCalled(e))
          => (circuitBreaker'[e] = NoBreaker /\ failureCount'[e] = 0)

\* C23: once the timeout of the open circuit of a service has passed, the
\* next availability query clears the circuit and selectBestProxy may
\* answer the service again; the next attempt decides: a success leaves
\* the circuit closed with failure count 0, a failure opens it again with
\* a new opening time.
C23_HalfOpen == [][C23_Step]_vars

\* the circuit of AllOrigins, opened in the first minutes, was cleared
\* after its timeout and opened again by the failure of the next attempt,
\* the health probe of AllOrigins not having answered
C23_Witness ==
    /\ healthCheck = 1
    /\ successes[AllOrigins] = 0
    /\ circuitBreaker[AllOrigins] > Cooldown
    /\ thirdFailureAt[AllOrigins] + Cooldown < circuitBreaker[AllOrigins]
\* the step is the return of the health probe of e
ProbeReturns(e) ==
    /\ healthCheck # 0
    /\ healthCheck' # healthCheck
    /\ ServiceOrder[healthCheck] = e

C24_Step ==
    \A e \in ServiceNames :
       ProbeReturns(e)
       => /\ proxyCalls' = proxyCalls
          /\ \/ /\ RecordSuccessCalled(e)
                /\ circuitBreaker'[e] = NoBreaker
                /\ failureCount'[e] = 0
             \/ /\ ~RecordSuccessCalled(e)
                /\ failureCount'[e] = failureCount[e] + 1
                /\ consecutiveFailures'[e] = consecutiveFailures[e] + 1
                /\ circuitBreaker'[e] =
                      IF failureCount[e] >= FailureThreshold
                        THEN now ELSE circuitBreaker[e]

\* C24: the health probe uses the same record functions: a probe of a
\* service that succeeds while its circuit is open closes the circuit at
\* once, before the timeout has passed and without any request of a
\* user, and a probe that fails counts as one failure in a row.
C24_HealthProbe == [][C24_Step]_vars

\* the first call opened the circuit of AllOrigins with two attempts and
\* made its third on the next service; at the health check, before the
\* timeout has passed, the probe of AllOrigins succeeded: the circuit is
\* closed, the probe of the next service not having answered
C24_Witness ==
    /\ proxyServices = ServiceNames
    /\ Len(proxyCalls) = 1
    /\ proxyCalls[1].pc = "done"
    /\ proxyCalls[1].attempts = 3
    /\ failureCount[ServiceOrder[2]] = 2
    /\ now = Cooldown
    /\ healthCheck = 2
    /\ successes[AllOrigins] = 1
    /\ circuitBreaker[AllOrigins] = NoBreaker
    /\ failureCount[AllOrigins] = 0
----------------------------------------------------------------------------
\* retryOperation of call c throws: the failure is final
PropagatesFailure(c) ==
    /\ c \in 1..Len(calls)
    /\ calls[c].pc = "work"
    /\ calls'[c].pc = "settled"
    /\ IsError(calls'[c].res)

C25_Step ==
    \A c \in 1..MaxCalls :
       PropagatesFailure(c) => retryAttempts'[calls[c].op] = 0

\* C25: when retryOperation propagates a final failure (the error cannot
\* be retried or the retries are used up), the attempt counter of the
\* operation id is cleared, so a later run under the same id has all its
\* retries.
C25_CounterCleared == [][C25_Step]_vars
\* a call of handleNetworkError made while the handler is offline
C26_Step ==
    (~isOnline /\ Len(calls') = Len(calls) + 1)
    => /\ retryAttempts' = retryAttempts
       /\ calls'[NextCall].pc = "settled"
       /\ calls'[NextCall].res = OfflineError

C26_OfflineCall ==
    \A c \in 1..Len(calls) :
       ~calls[c].online
       => /\ calls[c].pc = "settled"
          /\ calls[c].res = OfflineError
          /\ calls[c].invoked = 0
          /\ calls[c].delay = 0

\* C26: a call of handleNetworkError made while the handler is offline
\* fails at once: the work unit is not invoked, no backoff wait is made,
\* and the attempt counter is left as it is.
C26_OfflineFailsAtOnce == [][C26_Step]_vars /\ [](C26_OfflineCall)

\* a call with a retryable error and a counter of 1 left by an earlier
\* call of the same operation was made offline and has failed, the counter
\* still 1
C26_Witness ==
    /\ Len(calls) = 2
    /\ calls[1].op = calls[2].op
    /\ calls[1].pc = "settled"
    /\ ~calls[2].online
    /\ Retryable(calls[2].error)
    /\ calls[2].startAttempts = 1
    /\ retryAttempts[calls[2].op] = 1
    /\ calls[2].res = OfflineError
----------------------------------------------------------------------------
\* an invocation of executeDownload for task t is between its
\* activeDownloads++ and its finally block
Running(t) == run[t].invocations > 0

C27_OneInvocation == \A t \in Tasks : run[t].invocations <= 1

C27_QueueEntries ==
    \A i \in 1..Len(downloadQueue) :
       /\ ~Running(downloadQueue[i])
       /\ \A j \in 1..Len(downloadQueue) :
             downloadQueue[i] = downloadQueue[j] => i = j

\* C27: in every reachable state at most one invocation of executeDownload
\* is in progress for a task id, whatever was cancelled, retried by hand,
\* retried by a timer or admitted from the queue; a task id occurs at most
\* once in downloadQueue and not while an invocation of it is in progress.
C27_SingleInvocation == C27_OneInvocation /\ C27_QueueEntries

\* task 2 was cancelled while its invocation was in progress and task 1,
\* which had failed after its timer retries, was retried by hand and waits
\* in the queue behind task 4
C27_Witness ==
    /\ Running(2) /\ StatusOf(2) = "cancelled"
    /\ manualRetries = << 1 >>
    /\ downloads[1].retryCount = 0
    /\ downloadQueue = << 4, 1 >>
----------------------------------------------------------------------------
\* task t, which holds a slot, reaches a terminal state in this step
ReachesTerminal(t) ==
    /\ t \in DOMAIN downloads
    /\ Running(t)
    /\ downloads[t].status \notin TerminalStatus
    /\ downloads'[t].status \in TerminalStatus

C28_Step ==
    \A t \in Tasks :
       ReachesTerminal(t)
       => IF downloadQueue = << >>
            THEN activeDownloads' = activeDownloads - 1
            ELSE /\ activeDownloads' = activeDownloads
                 /\ downloadQueue' = Tail(downloadQueue)
                 /\ downloads'[Head(downloadQueue)].status = "downloading"

\* C28: whenever a task reaches a terminal state, activeDownloads is
\* decremented once for it and, if the queue is not empty, the head of
\* the queue is started (so that no task that is not cancelled stays
\* queued for ever while a slot is free).
C28_SlotRelease == [][C28_Step]_vars
----------------------------------------------------------------------------
\* the invocation of task t ends in this step, its transfer having failed
AttemptFails(t) ==
    /\ t \in DOMAIN downloads
    /\ run[t].pc = "micro"
    /\ IsError(run[t].res)
    /\ run'[t].pc # "micro"

C29_Step ==
    \A t \in DOMAIN downloads' :
       \* no step takes retryCount beyond the budget
       /\ downloads'[t].retryCount <= RetryAttempts
       /\ t \in DOMAIN downloads =>
            IF AttemptFails(t)
              THEN IF downloads[t].retryCount < RetryAttempts
                     \* a failure within the budget: one more retry,
                     \* nothing reported
                     THEN /\ downloads'[t].status = "retrying"
                          /\ downloads'[t].retryCount = downloads[t].retryCount + 1
                          /\ run'[t].pc = "timer"
                          /\ errorNotified'[t] = errorNotified[t]
                     \* the failure that exhausts the budget
                     ELSE /\ downloads'[t].status = "failed"
                          /\ downloads'[t].error = run[t].res
                          /\ downloads'[t].retryCount = downloads[t].retryCount
                          /\ errorNotified'[t] = errorNotified[t] + 1
                          /\ run'[t].pc = "none"
                          /\ ~InQueue(downloadQueue', t)
              ELSE \* retrying is entered by a failure within the budget only
                   /\ downloads'[t].status = "retrying"
                        => downloads[t].status = "retrying"
                   \* a failed task is left alone unless retryDownload is
                   \* called for it
                   /\ downloads[t].status = "failed"
                        => \/ /\ downloads'[t] = downloads[t]
                              /\ run'[t] = run[t]
                              /\ errorNotified'[t] = errorNotified[t]
                              /\ ~InQueue(downloadQueue', t)
                           \/ RetryDownloadCalled /\ RetryDownloadId = t

\* C29: a task whose transfer keeps failing goes from retrying to
\* downloading at most retryAttempts (3) times and its retryCount never
\* exceeds 3; the failure that exhausts the budget makes the task failed,
\* stores the last error on the task and reports it once to the error
\* observers, and the task is not started or queued again unless
\* retryDownload is called.
C29_RetryBudget == [][C29_Step]_vars

\* task 1 has failed after three retries, its error stored and reported
\* once, and has been left alone while task 2 was submitted and went
\* through its own first retry
C29_Witness ==
    /\ 2 \in Known
    /\ downloads[1].status = "failed"
    /\ downloads[1].retryCount = RetryAttempts
    /\ IsError(downloads[1].error)
    /\ errorNotified[1] = 1
    /\ manualRetries = << >>
    /\ downloads[2].retryCount = 1
----------------------------------------------------------------------------
C30_Step ==
    \A t \in Tasks :
       (AttemptFails(t) /\ ~Retryable(run[t].res))
       => /\ downloads'[t].status = "failed"
          /\ downloads'[t].retryCount = downloads[t].retryCount

\* C30: a transfer failure of a kind that cannot be retried (cors, ssl,
\* notfound, auth, unknown) makes the task failed at once: the task does
\* not enter retrying for it and its retryCount is not incremented.
C30_NonRetryableFailsTask == [][C30_Step]_vars
----------------------------------------------------------------------------
TaskStatuses ==
    {"pending", "queued", "downloading", "retrying",
     "completed", "failed", "cancelled"}

\* the status changes one handler may make, following the edges
\* pending -> queued -> downloading -> {completed | retrying ->
\* downloading | failed | cancelled} and failed -> pending
StatusEdges ==
    { << "queued", "downloading" >>, << "queued", "cancelled" >>,
      << "downloading", "completed" >>, << "downloading", "retrying" >>,
      << "downloading", "failed" >>, << "downloading", "cancelled" >>,
      << "retrying", "downloading" >>,
      << "failed", "pending" >>, << "failed", "queued" >>,
      << "failed", "downloading" >> }

C31_Statuses == \A t \in Known : StatusOf(t) \in TaskStatuses

C31_Step ==
    \A t \in Known :
       /\ downloads'[t].status # StatusOf(t)
          => << StatusOf(t), downloads'[t].status >> \in StatusEdges
       /\ (StatusOf(t) = "failed" /\ downloads'[t].status # "failed")
          => (RetryDownloadCalled /\ RetryDownloadId = t)

\* C31: the status of every task is one of pending, queued, downloading,
\* retrying, completed, failed, cancelled, and every change of status
\* follows an edge of the task state machine; completed, failed and
\* cancelled are left only by retryDownload from failed.  This holds for
\* text tasks submitted with downloadTextContent as well.
C31_StatusMachine == [](C31_Statuses) /\ [][C31_Step]_vars
----------------------------------------------------------------------------
\* the task is terminal and its last update is more than 24 hours old
Expired(ds, id, at) ==
    ds[id].status \in TerminalStatus /\ at - ds[id].lastUpdate > MaxAge

\* C32: cleanupCompletedDownloads removes a task only if it is terminal and
\* its last update is more than 24 hours old, and it removes every such
\* task, completed, failed or cancelled; tasks that are not terminal are
\* never removed.
C32_Retention ==
    retention.called
    => \A id \in DOMAIN retention.before :
          id \notin DOMAIN retention.after
             <=> Expired(retention.before, id, retention.at)
----------------------------------------------------------------------------
\* C33: every progress value stored on a task and every progress value
\* pushed to the progress observers lies in 0..100, for every pair
\* (loaded, total) the transfer reports, total = 0 and loaded > total
\* included.
C33_ProgressRange ==
    \A i \in 1..Len(tracked) :
       /\ tracked[i].stored \in 0..100
       /\ tracked[i].pushed \in 0..100
----------------------------------------------------------------------------
\* the updates emitted after the n first ones, in the order of emission
EmittedAfter(n) == SubSeq(observers.emitted, n + 1, Len(observers.emitted))

\* C34: progress updates are neither buffered nor replayed: an observer
\* registered with onProgressUpdate is called with exactly the updates
\* emitted after its registration, in the order of emission, and with
\* none emitted before; the exception of an observer does not keep the
\* update from the other observers.
C34_NoReplay ==
    \A i \in 1..Len(observers.progressCallbacks) :
       observers.delivered[i] = EmittedAfter(observers.registeredAt[i])

\* an observer that throws was registered first, an update was emitted,
\* a second observer was registered, and two different updates were
\* emitted after that
C34_Witness ==
    /\ Len(observers.progressCallbacks) >= 2
    /\ observers.progressCallbacks[1] = "throws"
    /\ observers.registeredAt[2] = 1
    /\ observers.emitted = << 100, 50, 100 >>
    /\ observers.delivered[2] = << 50, 100 >>
----------------------------------------------------------------------------
StableKinds ==
    {"network", "timeout", "cors", "ssl", "notfound", "auth", "server",
     "unknown"}

\* the failures ErrorHandler makes itself: the message of a kind, and the
\* offline message
ClassifiedFailures ==
    { GenerateUserFriendlyMessage([type |-> k]) : k \in StableKinds }
    \cup {OfflineError}

\* C35: every failure that leaves the core is a classified result that
\* carries one of the stable kinds; the raw error thrown by the work unit
\* is never propagated as it is, also after the retries are used up.
C35_ClassifiedFailures ==
    \A c \in 1..Len(calls) :
       (Settled(c) /\ IsError(calls[c].res))
       => calls[c].res \in ClassifiedFailures
----------------------------------------------------------------------------
\* call c starts the backoff wait before a re-invocation in this step, no
\* other call on its operation id being in progress
StartsBackoff(c) ==
    /\ c \in 1..Len(calls')
    /\ calls'[c].pc = "backoff"
    /\ c > Len(calls) \/ calls[c].pc = "work"
    /\ \A d \in 1..Len(calls') \ {c} :
          calls'[d].op = calls'[c].op => calls'[d].pc = "settled"

C36_Step ==
    \A c \in 1..MaxCalls :
       StartsBackoff(c)
       => LET n == calls'[c].invoked + 1 IN
          /\ retryAttempts'[calls'[c].op] = n
          /\ calls'[c].delay = RetryDelay * Pow2(n - 1)

C36_CounterBound == \A op \in Operations : retryAttempts[op] <= MaxRetries

\* C36: before the n-th re-invocation of the work unit (n = 1, 2, 3) of a
\* run, the runs of an operation id coming one after the other,
\* retryOperation increments the attempt counter to n and waits
\* retryDelay * 2^(n-1) (1 s, 2 s, 4 s); the attempt counter never exceeds
\* maxRetries.
C36_BackoffSchedule == [][C36_Step]_vars /\ [](C36_CounterBound)
----------------------------------------------------------------------------
C37_Step ==
    \A t \in Tasks :
       (AttemptFails(t) /\ IsFile(t) /\ dmOnline) => run[t].calls >= 1

\* C37: the work unit handed to handleNetworkError is executed: while
\* online, the transfer function of a file task is invoked at least once
\* in every attempt before a failure is reported for the attempt (and so
\* is the forwarded request for every service selected in proxyGet).
C37_WorkExecuted == [][C37_Step]_vars
----------------------------------------------------------------------------
\* the step is a call of cleanupDownloads
CleanupDownloadsCalled ==
    /\ downloadQueue' = << >>
    /\ activeDownloads' = 0
    /\ run' = run
    /\ \A t \in Known : downloads'[t].status \in {StatusOf(t), "cancelled"}

C38_Step ==
    /\ CleanupDownloadsCalled => (downloadQueue' = << >> /\ activeDownloads' = 0)
    /\ activeDownloads' < activeDownloads
       => (activeDownloads' = activeDownloads - 1 \/ CleanupDownloadsCalled)

C38_NonNegative == activeDownloads >= 0

\* C38: activeDownloads is never negative and is decremented once for
\* every attempt that was started: after cleanupDownloads the queue is
\* empty and activeDownloads is 0, and it stays >= 0 when the transfers
\* that were in flight at the time of the cleanup return.
C38_ActiveDownloads == [](C38_NonNegative) /\ [][C38_Step]_vars
----------------------------------------------------------------------------
\* C39: with several proxyGet callers between selectBestProxy and the
\* update of the counters, the number of requests dispatched to a service
\* within one rate window never exceeds its rate limit, and neither does
\* its requestCount.
C39_RateLimitHolds ==
    \A e \in proxyServices :
       /\ attemptsInWindow[e] <= RateLimit(e)
       /\ requestCount[e] <= RateLimit(e)
----------------------------------------------------------------------------
\* task t has a terminal status
Ended(t) == t \in Known /\ StatusOf(t) \in TerminalStatus

\* C40: every submitted task eventually reaches a terminal status
\* (completed, failed or cancelled), every attempt returning and every
\* timer firing; so does a text task submitted with downloadTextContent,
\* which ends completed when its processing succeeds.
C40_EveryTaskEnds ==
    \A t \in 1..MaxMixedTasks : (t \in Known) ~> Ended(t)

====
